---- MODULE Spec2Model ----
(***************************************************************************)
(* A model of the veza chat server's session hub: the per-action rate      *)
(* limiter (security.rs), the session and room registries (hub/common.rs,  *)
(* hub/room.rs, hub/dm.rs), the message handler (message_handler.rs) and   *)
(* the message store (message_store.rs).                                   *)
(***************************************************************************)
EXTENDS Integers, Sequences, FiniteSets, TLC

VARIABLES
    \* ---- AdvancedRateLimiter (security.rs) ----
    rl_now,         \* the value SystemTime::now() returns to the next call
    rl_action,      \* the SecurityAction the calls of this behaviour use
    rl_gran,        \* the spacing of the call times of this behaviour
    user_actions,   \* AdvancedRateLimiter.user_actions: user -> Vec<SystemTime>
    rl_ok,          \* history: the times of the calls that returned Ok, per user
    rl_last,        \* the result of the last check_limit call
    \* ---- ChatHub (hub/common.rs) and what its operations touch ----
    clients,        \* ChatHub.clients: HashMap<i32, Client> as <<user_id, client>> entries
    rooms,          \* ChatHub.rooms: room name -> Vec<i32> of member ids
    stats,          \* ChatHub.stats: HubStats
    messages,       \* the rows of the messages table, in insertion order
    user_blocks,    \* the rows of the user_blocks table: <<blocker, blocked>>
    inbox,          \* per session, the frames its outbound sink accepted
    hub_now,        \* the clock the liveness test reads
    next_session,   \* the number of Client values constructed so far, plus one
    next_content,   \* the number of send requests made so far, plus one
    tasks,          \* per task, the hub operation it runs and where it is in it
    \* ---- MessageStore (message_store.rs) ----
    store_pinned,   \* the ids of the messages rows whose is_pinned is true
    moderation_log, \* the number of rows of the moderation_log table
    pin_tasks,      \* per task, the pin_room_message call it runs and where it is in it
    store_rows,     \* the rows of the messages table the store reads and writes
    store_now,      \* the value Utc::now() returns to the next call
    message_mentions, \* the rows of the message_mentions table: <<message_id, user_id>>
    msg_tasks,      \* per task, the store call it runs and where it is in it
    \* ---- the locks of ChatHub: clients, rooms, stats (tokio RwLock) ----
    lock_tasks,     \* per task, the hub operation it runs, the next lock
                    \* instruction of it, and the guards it holds
    \* ---- the message_reactions table (message_store.rs, reactions.rs) ----
    message_reactions, \* the rows of the table, in insertion order
    rx_tasks,       \* per task, the reaction call it runs and where it is in it
    \* ---- SessionManager (security.rs) ----
    active_sessions, \* SessionManager.active_sessions: user -> token_hash of its SessionInfo
    sess_last,      \* the last session call and its result
    \* ---- the hub's RateLimiter, the rooms table, IpMonitor ----
    hub_buckets,    \* ChatHub.rate_limiter: user -> the calls recorded in the current window
    db_rooms,       \* the names in the rooms table
    ip_actions,     \* IpMonitor.ip_actions: ip -> the times of the recorded actions
    blacklisted_ips \* IpMonitor.blacklisted_ips

rlVars == <<rl_now, rl_action, rl_gran, user_actions, rl_ok, rl_last>>

hubVars == <<clients, rooms, stats, messages, user_blocks, inbox, hub_now,
             next_session, next_content, tasks>>

pinVars == <<store_pinned, moderation_log, pin_tasks>>

rowVars == <<store_rows, store_now, message_mentions, msg_tasks>>

storeVars == <<store_pinned, moderation_log, pin_tasks,
               store_rows, store_now, message_mentions, msg_tasks>>

lockVars == <<lock_tasks>>

rxVars == <<message_reactions, rx_tasks>>

sessVars == <<active_sessions, sess_last>>

extVars == <<hub_buckets, db_rooms, ip_actions, blacklisted_ips>>

vars == <<rl_now, rl_action, rl_gran, user_actions, rl_ok, rl_last,
          clients, rooms, stats, messages, user_blocks, inbox, hub_now,
          next_session, next_content, tasks,
          store_pinned, moderation_log, pin_tasks,
          store_rows, store_now, message_mentions, msg_tasks,
          lock_tasks, message_reactions, rx_tasks,
          active_sessions, sess_last,
          hub_buckets, db_rooms, ip_actions, blacklisted_ips>>

(***************************************************************************)
(* Helpers on sequences.                                                   *)
(***************************************************************************)
Range(s) == {s[i] : i \in 1..Len(s)}

CountIn(s, lo, hi) == Cardinality({i \in 1..Len(s) : lo <= s[i] /\ s[i] <= hi})

(***************************************************************************)
(* AdvancedRateLimiter                                                     *)
(***************************************************************************)
NoBurst == 0

\* How many times the clock moves on in a behaviour.
RLMaxAdvances == 6
\* A caller makes at most this many calls at one instant, or calls until refused.
RLPartial == 1
RLUsers == {1}

ConfiguredActions == {"SendMessage", "CreateRoom", "JoinRoom", "SendDM", "AdminAction"}

\* AdvancedRateLimiter::new: the limits table (burst_limit None is NoBurst).
limits(a) ==
    CASE a = "SendMessage" -> [max_count |-> 20,  window_duration |-> 60,  burst_limit |-> 5]
      [] a = "CreateRoom"  -> [max_count |-> 3,   window_duration |-> 300, burst_limit |-> NoBurst]
      [] a = "JoinRoom"    -> [max_count |-> 10,  window_duration |-> 60,  burst_limit |-> 3]
      [] a = "SendDM"      -> [max_count |-> 15,  window_duration |-> 60,  burst_limit |-> 3]
      [] a = "AdminAction" -> [max_count |-> 100, window_duration |-> 60,  burst_limit |-> 10]

\* The burst sub-window of check_limit, in seconds.
BurstWindow == 10

\* now.duration_since(time).unwrap_or(Duration::ZERO)
DurationSince(now, time) == IF now >= time THEN now - time ELSE 0

\* A retain that also drops the timestamps exactly one window old.
Retain_Strict(actions, now, window) ==
    SelectSeq(actions, LAMBDA time : DurationSince(now, time) < window)

\* actions.retain(|time| now.duration_since(*time) <= limit.window_duration)
Retain(actions, now, window) ==
    SelectSeq(actions, LAMBDA time : DurationSince(now, time) <= window)

\* A burst filter that looks back over the whole window of the action.
RecentActions_Window(actions, now) == Len(actions)

\* the count of the burst filter
RecentActions(actions, now) ==
    Cardinality({i \in 1..Len(actions) : DurationSince(now, actions[i]) <= BurstWindow})

\* An off-by-one main limit: one call too many is let through.
MainLimitHit_OffByOne(actions, limit) == Len(actions) > limit.max_count

MainLimitHit(actions, limit) == Len(actions) >= limit.max_count

BurstLimitHit(actions, now, limit) ==
    /\ limit.burst_limit # NoBurst
    /\ RecentActions(actions, now) >= limit.burst_limit

\* The call times explored: multiples of the burst window, or of one second more,
\* scaled to the action's window (a 300 s window is explored in 50 s or 55 s steps).
RLGranularities == {BurstWindow, BurstWindow + 1}

RLStep == rl_gran * (limits(rl_action).window_duration \div 60)

\* AdvancedRateLimiter::new, before the first call.
RLStart ==
    /\ rl_now = 0
    /\ user_actions = [u \in RLUsers |-> <<>>]
    /\ rl_ok = [u \in RLUsers |-> <<>>]
    /\ rl_last = "none"

\* AdvancedRateLimiter::check_limit(user_id, action) at time rl_now, on the bucket
\* of the key (user_id, action); an action without an entry in the limits table
\* is refused before the bucket is looked up.
CheckLimitOn(key, action) ==
    IF action \notin ConfiguredActions
    THEN /\ rl_last' = "ErrConfig"
         /\ UNCHANGED <<user_actions, rl_ok, rl_now, rl_action, rl_gran, hubVars, storeVars, lockVars, rxVars, sessVars, extVars>>
    ELSE
    LET limit == limits(action)
        actions == Retain(user_actions[key], rl_now, limit.window_duration)
    IN  IF MainLimitHit(actions, limit) \/ BurstLimitHit(actions, rl_now, limit)
        THEN /\ user_actions' = [user_actions EXCEPT ![key] = actions]
             /\ rl_last' = "Err"
             /\ UNCHANGED <<rl_ok, rl_now, rl_action, rl_gran, hubVars, storeVars, lockVars, rxVars, sessVars, extVars>>
        ELSE /\ user_actions' = [user_actions EXCEPT ![key] = Append(actions, rl_now)]
             /\ rl_ok' = [rl_ok EXCEPT ![key] = Append(@, rl_now)]
             /\ rl_last' = "Ok"
             /\ UNCHANGED <<rl_now, rl_action, rl_gran, hubVars, storeVars, lockVars, rxVars, sessVars, extVars>>

\* check_limit for the action of this behaviour, with one bucket per user.
CheckLimit(user_id) == CheckLimitOn(user_id, rl_action)

\* The clock moves on between two calls: after a refusal, or after at most
\* RLPartial accepted calls at this instant.
RLAdvance ==
    /\ rl_now + RLStep <= RLMaxAdvances * RLStep
    /\ \/ rl_last = "Err"
       \/ \A u \in RLUsers : CountIn(rl_ok[u], rl_now, rl_now) <= RLPartial
    /\ rl_now' = rl_now + RLStep
    /\ rl_last' = "none"
    /\ UNCHANGED <<user_actions, rl_ok, rl_action, rl_gran, hubVars, storeVars, lockVars, rxVars, sessVars, extVars>>


\* ---------------------------------------------------------------------------
\* SessionManager (security.rs): the token sessions of the users.
\* ---------------------------------------------------------------------------

\* Bound: the user ids the session calls are made for are 1..SessMaxUser.
SessMaxUser == 6

SessUsers == 1..SessMaxUser

\* The tokens the callers present.
Tokens == {"a", "b"}

\* SessionManager::new: max_sessions_per_user: 5
max_sessions_per_user == 5

\* No entry under the key in active_sessions.
NoSession == <<>>

\* hash_token: the hasher's 64-bit digest of the token, printed in hexadecimal;
\* equal tokens give equal digests, and the two tokens here give different ones.
hash_token(token) == <<"digest", token>>

\* The number of sessions active_sessions holds for the user: the map has one
\* entry per key.
SessionsHeldBy(user_id) == IF active_sessions[user_id] = NoSession THEN 0 ELSE 1

\* create_session: the entries create_session counts before it inserts, those
\* whose token_hash equals the hash of the new token.
user_sessions(token_hash) ==
    {u \in SessUsers : active_sessions[u] # NoSession /\ active_sessions[u] = token_hash}

\* SessionManager::create_session(user_id, token, ip).
CreateSession(user_id, token) ==
    LET token_hash == hash_token(token)
    IN  /\ IF Cardinality(user_sessions(token_hash)) >= max_sessions_per_user
           THEN /\ sess_last' = [op |-> "create_session", user_id |-> user_id,
                                 res |-> "ConnectionLimitReached"]
                /\ UNCHANGED active_sessions
           ELSE /\ active_sessions' = [active_sessions EXCEPT ![user_id] = token_hash]
                /\ sess_last' = [op |-> "create_session", user_id |-> user_id, res |-> "Ok"]
        /\ UNCHANGED <<rlVars, hubVars, storeVars, lockVars, rxVars, extVars>>

\* SessionManager::validate_session(user_id, token); expired is whether
\* last_activity is more than 24 hours old.
ValidateSession(user_id, token, expired) ==
    /\ IF active_sessions[user_id] = NoSession
       THEN /\ sess_last' = [op |-> "validate_session", user_id |-> user_id,
                             res |-> "unauthorized"]
            /\ UNCHANGED active_sessions
       ELSE IF active_sessions[user_id] # hash_token(token)
       THEN /\ sess_last' = [op |-> "validate_session", user_id |-> user_id,
                             res |-> "unauthorized"]
            /\ UNCHANGED active_sessions
       ELSE IF expired
       THEN /\ active_sessions' = [active_sessions EXCEPT ![user_id] = NoSession]
            /\ sess_last' = [op |-> "validate_session", user_id |-> user_id,
                             res |-> "unauthorized"]
       ELSE /\ sess_last' = [op |-> "validate_session", user_id |-> user_id, res |-> "Ok"]
            /\ UNCHANGED active_sessions
    /\ UNCHANGED <<rlVars, hubVars, storeVars, lockVars, rxVars, extVars>>

SessionsNext ==
    \/ \E u \in SessUsers, token \in Tokens : CreateSession(u, token)
    \/ \E u \in SessUsers, token \in Tokens, expired \in BOOLEAN :
          ValidateSession(u, token, expired)
(***************************************************************************)
(* MessageStore: the messages table                                        *)
(***************************************************************************)
\* "Limiter le nombre de messages épinglés (max 10 par salon)"
MaxPinned == 10

\* The messages table the pin_room_message calls work on: ids
\* 1..StoreMaxMessages, the last one a message of the room "random", the others
\* messages of the room "general".
StoreMaxMessages == 12
\* No pin_room_message call is started once the moderation log has this many rows.
MaxModerationLog == 10

StoreMessages == 1..StoreMaxMessages

StoreRooms == {"general", "random"}

RoomOf(message_id) == IF message_id = StoreMaxMessages THEN "random" ELSE "general"

\* Option<T>: None, Some(x) and the test the code makes with if let / unwrap.
None == <<>>

Some(x) == <<x>>

\* A message body is a sequence of characters.
Contents == {<<"h", "i">>, <<"Y", "o">>}

\* The row an INSERT INTO messages creates: the columns the statement names, and
\* the column defaults for the others. A NULL id is 0 and a NULL room is "".
NewRow(id, message_type, content, author_id, room_id, recipient_id, parent_message_id, created_at) ==
    [id |-> id, message_type |-> message_type, content |-> content,
     author_id |-> author_id, room_id |-> room_id, recipient_id |-> recipient_id,
     parent_message_id |-> parent_message_id, thread_count |-> 0,
     status |-> "sent", is_edited |-> FALSE, original_content |-> None,
     created_at |-> created_at]

\* The table the pin_room_message calls start from.
StoreTable ==
    [i \in StoreMessages |->
        NewRow(i, "room_message", <<"h", "i">>, 1, RoomOf(i), 0, 0, i)]

RowIds == {store_rows[i].id : i \in 1..Len(store_rows)}

RowById(id) == store_rows[CHOOSE i \in 1..Len(store_rows) : store_rows[i].id = id]

\* A read that leaves the status out of its WHERE clause.
NotDeleted_Any(row) == TRUE

\* m.status != 'deleted'
NotDeleted(row) == row.status # "deleted"

\* ORDER BY m.created_at DESC, over a set of rows: the newest first, a row at
\* the place given by the number of rows that come before it.
Newer(q, r) ==
    \/ q.created_at > r.created_at
    \/ (q.created_at = r.created_at /\ q.id > r.id)

OrderByCreatedAtDesc(S) ==
    [k \in 1..Cardinality(S) |->
        CHOOSE r \in S : Cardinality({q \in S : Newer(q, r)}) = k - 1]

(***************************************************************************)
(* MessageStore::pin_room_message                                          *)
(***************************************************************************)
PinTasks == {1, 2}

IdlePin == [pc |-> "idle", message_id |-> 0, room_id |-> "", is_pinned |-> FALSE,
            res |-> "none"]

MsgTasks == {1, 2}

\* A call of send_room_message, send_direct_message, edit_message or
\* delete_message: its arguments, the locals it keeps from one statement to the
\* next, and its result.
IdleMsg == [op |-> "none", pc |-> "idle", message_id |-> 0, user_id |-> 0,
            content |-> <<>>, original_content |-> None, parent_message_id |-> 0,
            mentions |-> <<>>, res |-> "none"]

\* MessageStore::new over empty tables
StoreStart ==
    /\ store_pinned = {}
    /\ moderation_log = 0
    /\ pin_tasks = [t \in PinTasks |-> IdlePin]
    /\ store_rows = <<>>
    /\ store_now = 1
    /\ message_mentions = {}
    /\ msg_tasks = [t \in MsgTasks |-> IdleMsg]

\* SELECT EXISTS(SELECT 1 FROM messages WHERE id = $1 AND room_id = $2)
MessageExists(message_id, room_id) ==
    \E i \in 1..Len(store_rows) :
        store_rows[i].id = message_id /\ store_rows[i].room_id = room_id

\* SELECT COUNT(*) FROM messages WHERE room_id = $1 AND is_pinned = true
PinnedCount(room_id) ==
    Cardinality({i \in 1..Len(store_rows) :
                    store_rows[i].room_id = room_id /\ store_rows[i].id \in store_pinned})

\* An off-by-one limit: an eleventh message may be pinned.
PinLimitReached_OffByOne(pinned_count) == pinned_count > MaxPinned

\* if pinned_count >= 10
PinLimitReached(pinned_count) == pinned_count >= MaxPinned

\* UPDATE messages SET is_pinned = $1 WHERE id = $3
SetPinned(pinned, message_id, is_pinned) ==
    IF is_pinned THEN pinned \cup {message_id} ELSE pinned \ {message_id}

PinReturns(t, res) ==
    [pin_tasks EXCEPT ![t] = [IdlePin EXCEPT !.pc = "done", !.res = res]]

\* pin_room_message, from the call to the answer of the EXISTS query
PinCheckExists(t, message_id, room_id, is_pinned, db_ok) ==
    /\ pin_tasks[t].pc = "idle"
    /\ moderation_log < MaxModerationLog
    /\ pin_tasks' =
         IF ~db_ok THEN PinReturns(t, "database")
         ELSE IF ~MessageExists(message_id, room_id) THEN PinReturns(t, "not_found")
         ELSE [pin_tasks EXCEPT ![t] =
                 [IdlePin EXCEPT !.message_id = message_id, !.room_id = room_id,
                                 !.is_pinned = is_pinned,
                                 !.pc = IF is_pinned THEN "P_count" ELSE "P_update"]]
    /\ UNCHANGED <<store_pinned, moderation_log, rowVars, rlVars, hubVars, lockVars, rxVars, sessVars, extVars>>

\* pin_room_message: the COUNT query and the test of the limit
PinCheckCount(t, db_ok) ==
    /\ pin_tasks[t].pc = "P_count"
    /\ pin_tasks' =
         IF ~db_ok THEN PinReturns(t, "database")
         ELSE IF PinLimitReached(PinnedCount(pin_tasks[t].room_id))
         THEN PinReturns(t, "limit")
         ELSE [pin_tasks EXCEPT ![t].pc = "P_update"]
    /\ UNCHANGED <<store_pinned, moderation_log, rowVars, rlVars, hubVars, lockVars, rxVars, sessVars, extVars>>

\* pin_room_message: the UPDATE
PinUpdate(t, db_ok) ==
    /\ pin_tasks[t].pc = "P_update"
    /\ IF db_ok
       THEN /\ store_pinned' = SetPinned(store_pinned, pin_tasks[t].message_id,
                                         pin_tasks[t].is_pinned)
            /\ pin_tasks' = [pin_tasks EXCEPT ![t].pc = "P_log"]
       ELSE /\ pin_tasks' = PinReturns(t, "database")
            /\ UNCHANGED store_pinned
    /\ UNCHANGED <<moderation_log, rowVars, rlVars, hubVars, lockVars, rxVars, sessVars, extVars>>

\* pin_room_message: the INSERT INTO moderation_log, then Ok(())
PinLog(t, db_ok) ==
    /\ pin_tasks[t].pc = "P_log"
    /\ IF db_ok
       THEN /\ moderation_log' = moderation_log + 1
            /\ pin_tasks' = PinReturns(t, "Ok")
       ELSE /\ pin_tasks' = PinReturns(t, "database")
            /\ UNCHANGED moderation_log
    /\ UNCHANGED <<store_pinned, rowVars, rlVars, hubVars, lockVars, rxVars, sessVars, extVars>>

\* The call has returned to its caller; the task may make another one.
PinReturn(t) ==
    /\ pin_tasks[t].pc = "done"
    /\ pin_tasks' = [pin_tasks EXCEPT ![t] = IdlePin]
    /\ UNCHANGED <<store_pinned, moderation_log, rowVars, rlVars, hubVars, lockVars, rxVars, sessVars, extVars>>

\* The messages a call may name: to pin, the oldest message that is neither
\* pinned nor being pinned by a running call; to unpin, the newest pinned one.
Targeted == {pin_tasks[t].message_id : t \in PinTasks}

PinTargets(is_pinned) ==
    LET free == RowIds \ (store_pinned \cup Targeted)
    IN  IF is_pinned
        THEN {m \in free : \A n \in free : m <= n}
        ELSE {m \in store_pinned : \A n \in store_pinned : n <= m}


\* get_pinned_messages: WHERE m.room_id = $1 AND m.is_pinned = true AND
\* m.status != 'deleted' ... ORDER BY m.created_at DESC
GetPinnedMessages(room_id) ==
    OrderByCreatedAtDesc({store_rows[i] : i \in
        {j \in 1..Len(store_rows) : /\ store_rows[j].room_id = room_id
                                    /\ store_rows[j].id \in store_pinned
                                    /\ NotDeleted(store_rows[j])}})

(***************************************************************************)
(* MessageStore: sending, editing, deleting and reading messages           *)
(***************************************************************************)
\* send calls are made while the messages table has fewer rows than this
MsgMaxRows == 2

MsgUsers == {1, 2, 3}

\* The calls explored: task 1 makes calls of every kind, task 2 edits and deletes
\* beside it; user 1 writes to the rooms, and the direct messages go from 1 to 2
\* and from 2 to 1.
MsgSenders == {1}

MsgAuthors == {1}

MsgPairs == {<<1, 2>>, <<2, 1>>}

MsgEditors == {1, 2}

MsgReturns(t, op, res) ==
    [msg_tasks EXCEPT ![t] = [IdleMsg EXCEPT !.pc = "done", !.res = res]]

\* RETURNING id: the next value of the id sequence
NextRowId == Len(store_rows) + 1

\* UPDATE messages SET thread_count = thread_count + 1 WHERE id = $1
BumpThreadCount(rows, parent_id) ==
    [i \in 1..Len(rows) |->
        IF rows[i].id = parent_id
        THEN [rows[i] EXCEPT !.thread_count = @ + 1]
        ELSE rows[i]]

\* What a send does once its row is inserted: the mentions, then the thread
\* count of the parent, then get_message_by_id.
AfterInsert(t, op, id, parent_message_id, mentions) ==
    IF mentions # <<>>
    THEN [msg_tasks EXCEPT ![t] =
            [IdleMsg EXCEPT !.op = op, !.pc = "S_mention", !.message_id = id,
                            !.parent_message_id = parent_message_id,
                            !.mentions = mentions]]
    ELSE IF parent_message_id # 0
    THEN [msg_tasks EXCEPT ![t] =
            [IdleMsg EXCEPT !.op = op, !.pc = "S_thread", !.message_id = id,
                            !.parent_message_id = parent_message_id]]
    ELSE MsgReturns(t, op, "Ok")

\* send_room_message, from the call to the answer of the INSERT INTO messages
SendRoomInsert(t, room_id, author_id, content, parent_message_id, mentions, db_ok) ==
    /\ msg_tasks[t].pc = "idle"
    /\ Len(store_rows) < MsgMaxRows
    /\ IF db_ok
       THEN /\ store_rows' = Append(store_rows,
                                NewRow(NextRowId, "room_message", content, author_id,
                                       room_id, 0, parent_message_id, store_now))
            /\ store_now' = store_now + 1
            /\ msg_tasks' = AfterInsert(t, "send_room_message", NextRowId,
                                        parent_message_id, mentions)
       ELSE /\ msg_tasks' = MsgReturns(t, "send_room_message", "database")
            /\ UNCHANGED <<store_rows, store_now>>
    /\ UNCHANGED <<message_mentions, pinVars, rlVars, hubVars, lockVars, rxVars, sessVars, extVars>>

\* send_room_message: one INSERT INTO message_mentions of the loop
SendMention(t, db_ok) ==
    /\ msg_tasks[t].pc = "S_mention"
    /\ IF db_ok
       THEN /\ message_mentions' =
                 message_mentions \cup {<<msg_tasks[t].message_id, Head(msg_tasks[t].mentions)>>}
            /\ msg_tasks' = AfterInsert(t, msg_tasks[t].op, msg_tasks[t].message_id,
                                        msg_tasks[t].parent_message_id,
                                        Tail(msg_tasks[t].mentions))
       ELSE /\ msg_tasks' = MsgReturns(t, msg_tasks[t].op, "database")
            /\ UNCHANGED message_mentions
    /\ UNCHANGED <<store_rows, store_now, pinVars, rlVars, hubVars, lockVars, rxVars, sessVars, extVars>>

\* send_room_message and send_direct_message: the UPDATE of the parent's
\* thread_count, then get_message_by_id
SendThread(t, db_ok) ==
    /\ msg_tasks[t].pc = "S_thread"
    /\ IF db_ok
       THEN /\ store_rows' = BumpThreadCount(store_rows, msg_tasks[t].parent_message_id)
            /\ msg_tasks' = MsgReturns(t, msg_tasks[t].op, "Ok")
       ELSE /\ msg_tasks' = MsgReturns(t, msg_tasks[t].op, "database")
            /\ UNCHANGED store_rows
    /\ UNCHANGED <<store_now, message_mentions, pinVars, rlVars, hubVars, lockVars, rxVars, sessVars, extVars>>

\* The same query with its two arguments in the order of the parameters.
is_user_blocked_Swapped(user1_id, user2_id) == <<user1_id, user2_id>> \in user_blocks

\* SELECT EXISTS(SELECT 1 FROM user_blocks WHERE blocker_id = $1 AND blocked_id = $2)
\* with $1 = user2_id and $2 = user1_id
is_user_blocked(user1_id, user2_id) == <<user2_id, user1_id>> \in user_blocks

\* send_direct_message, from the call to the answer of is_user_blocked
SendDmCheck(t, author_id, recipient_id, content, parent_message_id, db_ok) ==
    /\ msg_tasks[t].pc = "idle"
    /\ Len(store_rows) < MsgMaxRows
    /\ msg_tasks' =
         IF ~db_ok THEN MsgReturns(t, "send_direct_message", "database")
         ELSE IF is_user_blocked(author_id, recipient_id)
         THEN MsgReturns(t, "send_direct_message", "permission")
         ELSE [msg_tasks EXCEPT ![t] =
                 [IdleMsg EXCEPT !.op = "send_direct_message", !.pc = "M_insert",
                                 !.user_id = author_id, !.message_id = recipient_id,
                                 !.content = content,
                                 !.parent_message_id = parent_message_id]]
    /\ UNCHANGED <<store_rows, store_now, message_mentions, pinVars, rlVars, hubVars, lockVars, rxVars, sessVars, extVars>>

\* send_direct_message: the INSERT INTO messages (message_id holds the
\* recipient until the row has an id)
SendDmInsert(t, db_ok) ==
    /\ msg_tasks[t].pc = "M_insert"
    /\ IF db_ok
       THEN /\ store_rows' = Append(store_rows,
                                NewRow(NextRowId, "direct_message", msg_tasks[t].content,
                                       msg_tasks[t].user_id, "", msg_tasks[t].message_id,
                                       msg_tasks[t].parent_message_id, store_now))
            /\ store_now' = store_now + 1
            /\ msg_tasks' = AfterInsert(t, "send_direct_message", NextRowId,
                                        msg_tasks[t].parent_message_id, <<>>)
       ELSE /\ msg_tasks' = MsgReturns(t, "send_direct_message", "database")
            /\ UNCHANGED <<store_rows, store_now>>
    /\ UNCHANGED <<message_mentions, pinVars, rlVars, hubVars, lockVars, rxVars, sessVars, extVars>>

\* SELECT author_id, content FROM messages WHERE id = $1 AND status != 'deleted'
Editable(message_id) ==
    {store_rows[i] : i \in {j \in 1..Len(store_rows) :
                              store_rows[j].id = message_id /\ NotDeleted(store_rows[j])}}

\* let original_content = if message.content != new_content { Some(..) } else { None }
OriginalContent(content, new_content) ==
    IF content # new_content THEN Some(content) ELSE None

\* A plain assignment original_content = $3 in place of the COALESCE.
Coalesce_Overwrite(a, b) == b

\* COALESCE(original_content, $3)
Coalesce(a, b) == IF a # None THEN a ELSE b

\* UPDATE messages SET content = $1, updated_at = $2, is_edited = true,
\* original_content = COALESCE(original_content, $3) WHERE id = $4
UpdateEdited(rows, message_id, new_content, original_content) ==
    [i \in 1..Len(rows) |->
        IF rows[i].id = message_id
        THEN [rows[i] EXCEPT !.content = new_content, !.is_edited = TRUE,
                             !.original_content = Coalesce(@, original_content)]
        ELSE rows[i]]

\* edit_message, from the call to the test of the author
EditSelect(t, message_id, user_id, new_content, db_ok) ==
    /\ msg_tasks[t].pc = "idle"
    /\ msg_tasks' =
         IF ~db_ok THEN MsgReturns(t, "edit_message", "database")
         ELSE IF Editable(message_id) = {} THEN MsgReturns(t, "edit_message", "not_found")
         ELSE LET message == CHOOSE row \in Editable(message_id) : TRUE
              IN  IF message.author_id # user_id
                  THEN MsgReturns(t, "edit_message", "permission")
                  ELSE [msg_tasks EXCEPT ![t] =
                          [IdleMsg EXCEPT !.op = "edit_message", !.pc = "E_update",
                                          !.message_id = message_id, !.user_id = user_id,
                                          !.content = new_content,
                                          !.original_content =
                                              OriginalContent(message.content, new_content)]]
    /\ UNCHANGED <<store_rows, store_now, message_mentions, pinVars, rlVars, hubVars, lockVars, rxVars, sessVars, extVars>>

\* edit_message: the UPDATE, then get_message_by_id
EditUpdate(t, db_ok) ==
    /\ msg_tasks[t].pc = "E_update"
    /\ IF db_ok
       THEN /\ store_rows' = UpdateEdited(store_rows, msg_tasks[t].message_id,
                                          msg_tasks[t].content,
                                          msg_tasks[t].original_content)
            /\ msg_tasks' = MsgReturns(t, "edit_message", "Ok")
       ELSE /\ msg_tasks' = MsgReturns(t, "edit_message", "database")
            /\ UNCHANGED store_rows
    /\ UNCHANGED <<store_now, message_mentions, pinVars, rlVars, hubVars, lockVars, rxVars, sessVars, extVars>>

\* SELECT EXISTS(SELECT 1 FROM messages WHERE id = $1 AND author_id = $2)
IsAuthor(message_id, user_id) ==
    \E i \in 1..Len(store_rows) :
        store_rows[i].id = message_id /\ store_rows[i].author_id = user_id

\* UPDATE messages SET status = 'deleted', updated_at = $1 WHERE id = $2
SetDeleted(rows, message_id) ==
    [i \in 1..Len(rows) |->
        IF rows[i].id = message_id THEN [rows[i] EXCEPT !.status = "deleted"]
        ELSE rows[i]]

\* delete_message by a user who is not a moderator, to the test of the author
DeleteCheck(t, message_id, user_id, db_ok) ==
    /\ msg_tasks[t].pc = "idle"
    /\ msg_tasks' =
         IF ~db_ok THEN MsgReturns(t, "delete_message", "database")
         ELSE IF ~IsAuthor(message_id, user_id)
         THEN MsgReturns(t, "delete_message", "permission")
         ELSE [msg_tasks EXCEPT ![t] =
                 [IdleMsg EXCEPT !.op = "delete_message", !.pc = "X_update",
                                 !.message_id = message_id, !.user_id = user_id]]
    /\ UNCHANGED <<store_rows, store_now, message_mentions, pinVars, rlVars, hubVars, lockVars, rxVars, sessVars, extVars>>

\* delete_message: the UPDATE, which is the first statement of a moderator's call
DeleteUpdate(t, message_id, is_moderator, db_ok) ==
    /\ IF is_moderator
       THEN msg_tasks[t].pc = "idle"
       ELSE msg_tasks[t].pc = "X_update" /\ message_id = msg_tasks[t].message_id
    /\ IF db_ok
       THEN /\ store_rows' = SetDeleted(store_rows, message_id)
            /\ msg_tasks' = MsgReturns(t, "delete_message", "Ok")
       ELSE /\ msg_tasks' = MsgReturns(t, "delete_message", "database")
            /\ UNCHANGED store_rows
    /\ UNCHANGED <<store_now, message_mentions, pinVars, rlVars, hubVars, lockVars, rxVars, sessVars, extVars>>

\* The call has returned to its caller; the task may make another one.
MsgReturn(t) ==
    /\ msg_tasks[t].pc = "done"
    /\ msg_tasks' = [msg_tasks EXCEPT ![t] = IdleMsg]
    /\ UNCHANGED <<store_rows, store_now, message_mentions, pinVars, rlVars, hubVars, lockVars, rxVars, sessVars, extVars>>

(***************************************************************************)
(* The reads. A query answers Ok with its rows, or the database error; a   *)
(* negative LIMIT is an error of the database.                             *)
(***************************************************************************)
\* FROM messages: the rows of the table
Rows == Range(store_rows)

\* LIMIT n over an ordered result
Limit(rows, n) == SubSeq(rows, 1, IF n < Len(rows) THEN n ELSE Len(rows))

\* row_to_message: the status column as a MessageStatus
RowToMessage(row) ==
    [row EXCEPT !.status = IF @ \in {"sent", "delivered", "read", "edited", "deleted"}
                           THEN @ ELSE "sent"]

Query(rows, limit) ==
    IF limit < 0 THEN [res |-> "database", messages |-> <<>>]
    ELSE [res |-> "Ok",
          messages |-> [i \in 1..Len(Limit(rows, limit)) |-> RowToMessage(rows[i])]]

\* get_room_history
GetRoomHistory(room_id, limit, before_id, include_threads) ==
    LET where(m) == /\ m.room_id = room_id
                    /\ m.message_type = "room_message"
                    /\ NotDeleted(m)
                    /\ (~include_threads => m.parent_message_id = 0)
                    /\ (before_id # None => m.id < before_id[1])
    IN  Query(OrderByCreatedAtDesc({m \in Rows : where(m)}), limit)

\* get_dm_history
GetDmHistory(user1_id, user2_id, limit, before_id) ==
    LET where(m) == /\ m.message_type = "direct_message"
                    /\ NotDeleted(m)
                    /\ \/ (m.author_id = user1_id /\ m.recipient_id = user2_id)
                       \/ (m.author_id = user2_id /\ m.recipient_id = user1_id)
                    /\ (before_id # None => m.id < before_id[1])
    IN  Query(OrderByCreatedAtDesc({m \in Rows : where(m)}), limit)

\* ILIKE '%query%': the lower-cased query occurs in the lower-cased content
Lower(ch) == IF ch = "H" THEN "h" ELSE IF ch = "Y" THEN "y" ELSE IF ch = "O" THEN "o" ELSE ch

ILike(content, query) ==
    \E k \in 0..(Len(content) - Len(query)) :
        \A j \in 1..Len(query) : Lower(content[k + j]) = Lower(query[j])

\* search_messages; room_id is an Option
SearchMessages(query, user_id, room_id, limit) ==
    LET inroom(m) == /\ m.room_id = room_id[1]
                     /\ m.message_type = "room_message"
                     /\ NotDeleted(m)
                     /\ ILike(m.content, query)
        anywhere(m) == /\ NotDeleted(m)
                       /\ ILike(m.content, query)
                       /\ \/ m.message_type = "room_message"
                          \/ /\ m.message_type = "direct_message"
                             /\ (m.author_id = user_id \/ m.recipient_id = user_id)
    IN  IF room_id # None
        THEN Query(OrderByCreatedAtDesc({m \in Rows : inroom(m)}), limit)
        ELSE Query(OrderByCreatedAtDesc({m \in Rows : anywhere(m)}), limit)
(***************************************************************************)
(* ChatHub: the session registry, the room registry and the statistics     *)
(***************************************************************************)
Users == {1, 2}
Rooms == {"general", "random"}
Tasks == {1, 2}

\* The heartbeat supervisor is the one task that runs cleanup_dead_connections;
\* the other tasks serve connections.
Supervisor == {1}
Workers == Tasks \ Supervisor

\* How many Client values are constructed, how many send requests are made and
\* how far the clock runs in a behaviour.
MaxSessions == 2
MaxRequests == 2
MaxNow == 4

Sessions == 1..MaxSessions

\* ServerConfig.server.heartbeat_interval, in seconds.
HeartbeatInterval == 1

\* cleanup_dead_connections: let timeout = heartbeat_interval * 3
Timeout_TwoIntervals == HeartbeatInterval * 2

Timeout == HeartbeatInterval * 3

\* HashMap<i32, Client>: contains_key, get, insert (which replaces) and remove.
ContainsKey(map, k) == \E e \in map : e[1] = k

Get(map, k) == (CHOOSE e \in map : e[1] = k)[2]

\* An insert that adds an entry beside the one the key already has.
HashMapInsert_Keep(map, k, v) == map \cup {<<k, v>>}

HashMapInsert(map, k, v) == {e \in map : e[1] # k} \cup {<<k, v>>}

HashMapRemove(map, k) == {e \in map : e[1] # k}

\* Client::new: the session's sender, whose receiving end is there, and its last
\* activity, which is now.
NewClient(s) == [session |-> s, last_activity |-> hub_now, open |-> TRUE]

\* Client::is_alive(timeout): now - last_activity <= timeout
IsAlive(client, timeout) == hub_now - client.last_activity <= timeout

\* Client::send_text: a non-blocking send that fails when the receiving end of
\* the sender is gone.
SendText(client) == client.open

IdleTask ==
    [op |-> "idle", pc |-> "idle", user |-> 0, room |-> "", to |-> 0, content |-> 0,
     res |-> "none", err |-> "none", msg |-> 0, before |-> 0, session |-> 0, dead |-> {}, cur |-> 0,
     counted |-> FALSE, quiet |-> TRUE, touched |-> {}, expired |-> {}, fresh |-> {},
     removed |-> {}, limit |-> 0, history |-> <<>>, added |-> FALSE]

LockTasks == {1, 2, 3}

\* A task that runs no hub operation holds no guard.
IdleLock == [op |-> "idle", pc |-> 0, held |-> {}, waiting |-> FALSE, ahead |-> {}]

RxTasks == {1, 2}

\* A task that makes no reaction call.
IdleRx == [op |-> "idle", pc |-> "idle", message_id |-> 0, user_id |-> 0, emoji |-> "",
           res |-> "none", summary |-> <<>>]

\* The addresses requests come from; IpMonitor::new blacklists the last two.
Ips == {"10.0.0.1", "0.0.0.0", "255.255.255.255"}

Blacklist == {"0.0.0.0", "255.255.255.255"}

\* ChatHub::new, with an empty message_reactions table behind it
HubStart ==
    /\ clients = {}
    /\ rooms = [r \in Rooms |-> <<>>]
    /\ stats = [total_connections |-> 0, active_connections |-> 0, total_messages |-> 0,
                total_rooms_created |-> 0]
    /\ messages = <<>>
    /\ inbox = [s \in Sessions |-> <<>>]
    /\ hub_now = 0
    /\ next_session = 1
    /\ next_content = 1
    /\ tasks = [t \in Tasks |-> IdleTask]
    /\ lock_tasks = [t \in LockTasks |-> IdleLock]
    /\ message_reactions = <<>>
    /\ rx_tasks = [t \in RxTasks |-> IdleRx]
    /\ active_sessions = [u \in SessUsers |-> NoSession]
    /\ sess_last = [op |-> "none", user_id |-> 0, res |-> "none"]
    /\ hub_buckets = [u \in Users |-> 0]
    /\ db_rooms = {}
    /\ ip_actions = [ip \in Ips |-> <<>>]
    /\ blacklisted_ips = Blacklist

\* An unregister that lets go of the clients guard before it purges the rooms.
HoldsClientsWrite_Released(t) == FALSE

\* The tasks that hold the clients write guard across an await: unregister keeps
\* it from clients.write() to its return, over the purge of the rooms.
HoldsClientsWrite(t) == tasks[t].pc \in {"U_rooms", "C_rooms"}

\* broadcast_to_room holds the clients read guard while it awaits rooms.read().
HoldsClientsRead(t) == tasks[t].pc = "B_rooms"

\* tokio RwLock: write() needs no other holder, read() needs no writer.
CanWriteClients == \A t \in Tasks : ~HoldsClientsWrite(t) /\ ~HoldsClientsRead(t)

CanReadClients == \A t \in Tasks : ~HoldsClientsWrite(t)

\* History kept for the properties: a change of a registry by task `actor` is
\* noted in the other running tasks (a room send is no longer undisturbed, a
\* cleanup run has seen a register or a join of `u`).
Noted(tk, actor, u, kind) ==
    [x \in Tasks |->
        IF x = actor \/ tk[x].op = "idle" THEN tk[x]
        ELSE [tk[x] EXCEPT
                !.quiet = IF tk[x].op = "room_message" THEN FALSE ELSE @,
                !.touched = IF tk[x].op = "cleanup" /\ kind \in {"register", "join"}
                            THEN @ \cup {u} ELSE @]]

Members(r) == Range(rooms[r])

Registered(u) == ContainsKey(clients, u)

\* ChatHub::register(user_id, client)
Register(t, user_id) ==
    /\ tasks[t].pc = "idle"
    /\ next_session <= MaxSessions
    /\ CanWriteClients
    /\ clients' = HashMapInsert(clients, user_id, NewClient(next_session))
    /\ stats' = [stats EXCEPT !.total_connections = @ + 1,
                              !.active_connections = Cardinality(clients')]
    /\ next_session' = next_session + 1
    /\ tasks' = Noted([tasks EXCEPT ![t] =
                         [IdleTask EXCEPT !.op = "register", !.pc = "done",
                                          !.user = user_id, !.session = next_session,
                                          !.before = Cardinality(clients), !.res = "Ok"]],
                      t, user_id, "register")
    /\ UNCHANGED <<rooms, messages, user_blocks, inbox, hub_now, next_content, rlVars, storeVars, lockVars, rxVars, sessVars, extVars>>

\* An unregister that leaves active_connections as it was.
RemoveClient_StaleCount(user_id) ==
    /\ clients' = HashMapRemove(clients, user_id)
    /\ stats' = stats

\* unregister, first part: clients.write(), remove, active_connections.
RemoveClient(user_id) ==
    /\ clients' = HashMapRemove(clients, user_id)
    /\ stats' = IF ContainsKey(clients, user_id)
                THEN [stats EXCEPT !.active_connections = Cardinality(clients')]
                ELSE stats

\* unregister, second part: rooms.write(), retain in every room.
PurgeRooms(user_id) ==
    rooms' = [r \in Rooms |-> SelectSeq(rooms[r], LAMBDA id : id # user_id)]

\* ChatHub::unregister(user_id), up to the await of rooms.write()
UnregisterClients(t, user_id) ==
    /\ tasks[t].pc = "idle"
    /\ CanWriteClients
    /\ RemoveClient(user_id)
    /\ tasks' = Noted([tasks EXCEPT ![t] =
                         [IdleTask EXCEPT !.op = "unregister", !.pc = "U_rooms",
                                          !.user = user_id]],
                      t, user_id, "unregister")
    /\ UNCHANGED <<rooms, messages, user_blocks, inbox, hub_now,
                   next_session, next_content, rlVars, storeVars, lockVars, rxVars, sessVars, extVars>>

\* ChatHub::unregister(user_id), from rooms.write() to the return
UnregisterRooms(t) ==
    /\ tasks[t].pc = "U_rooms"
    /\ PurgeRooms(tasks[t].user)
    /\ tasks' = Noted([tasks EXCEPT ![t] = IdleTask], t, tasks[t].user, "unregister")
    /\ UNCHANGED <<clients, stats, messages, user_blocks, inbox, hub_now, next_session, next_content, rlVars, storeVars, lockVars, rxVars, sessVars, extVars>>

\* A push that looks for the user at the end of the list only.
PushMember_LastOnly(entry, user_id) ==
    IF entry # <<>> /\ entry[Len(entry)] = user_id THEN entry ELSE Append(entry, user_id)

\* A push that does not look whether the user is in the list already.
PushMember_Dup(entry, user_id) == Append(entry, user_id)

\* entry.push(user_id) unless entry.contains(&user_id)
PushMember(entry, user_id) ==
    IF user_id \in Range(entry) THEN entry ELSE Append(entry, user_id)

\* hub::room::join_room(hub, room, user_id) with a room name the validation
\* accepts: one step from call to return (its only await is rooms.write()).
JoinRoom(room, user_id) ==
    /\ rooms' = [rooms EXCEPT ![room] = PushMember(@, user_id)]
    /\ tasks' = Noted(tasks, 0, user_id, "join")
    /\ UNCHANGED <<clients, stats, messages, user_blocks, inbox, hub_now, next_session, next_content, rlVars, storeVars, lockVars, rxVars, sessVars, extVars>>

\* The clients the scan of cleanup_dead_connections pushes to dead_clients.
DeadClients == {e[1] : e \in {c \in clients : ~IsAlive(c[2], Timeout)}}

\* cleanup_dead_connections: the scan under clients.read(); with no dead client
\* the loop that follows is empty and the call returns.
CleanupScan(t) ==
    /\ tasks[t].pc = "idle"
    /\ CanReadClients
    /\ tasks' = [tasks EXCEPT ![t] =
                         [IdleTask EXCEPT
                            !.op = "cleanup", !.dead = DeadClients,
                            !.pc = IF DeadClients = {} THEN "done" ELSE "C_next",
                            !.res = IF DeadClients = {} THEN "Ok" ELSE "none",
                            !.expired = {c[1] : c \in {e \in clients :
                                hub_now - e[2].last_activity > 3 * HeartbeatInterval}},
                            !.fresh = {c[2].session : c \in {e \in clients :
                                hub_now - e[2].last_activity <= 3 * HeartbeatInterval}}]]
    /\ UNCHANGED <<clients, rooms, stats, messages, user_blocks, inbox, hub_now, next_session, next_content, rlVars, storeVars, lockVars, rxVars, sessVars, extVars>>

\* cleanup_dead_connections: self.unregister(user_id) of the next dead client, up
\* to the await of rooms.write() (a HashMap is iterated in no particular order)
CleanupUnregister(t) ==
    /\ tasks[t].pc = "C_next"
    /\ CanWriteClients
    /\ \E user_id \in tasks[t].dead :
        /\ RemoveClient(user_id)
        /\ tasks' = Noted([tasks EXCEPT ![t].pc = "C_rooms", ![t].cur = user_id,
                                        ![t].removed = @ \cup {c[2].session : c \in
                                                          {e \in clients : e[1] = user_id}}],
                          t, user_id, "unregister")
    /\ UNCHANGED <<rooms, messages, user_blocks, inbox, hub_now,
                   next_session, next_content, rlVars, storeVars, lockVars, rxVars, sessVars, extVars>>

\* cleanup_dead_connections: the rest of that unregister, then the next client or
\* the return
CleanupPurge(t) ==
    /\ tasks[t].pc = "C_rooms"
    /\ PurgeRooms(tasks[t].cur)
    /\ LET left == tasks[t].dead \ {tasks[t].cur}
       IN  tasks' = Noted([tasks EXCEPT ![t] =
                             [tasks[t] EXCEPT !.dead = left, !.cur = 0,
                                              !.pc = IF left = {} THEN "done" ELSE "C_next",
                                              !.res = IF left = {} THEN "Ok" ELSE "none"]],
                          t, tasks[t].cur, "unregister")
    /\ UNCHANGED <<clients, stats, messages, user_blocks, inbox, hub_now, next_session, next_content, rlVars, storeVars, lockVars, rxVars, sessVars, extVars>>

\* The operation has returned to its caller; the task may run another one.
Return(t) ==
    /\ tasks[t].pc = "done"
    /\ tasks' = [tasks EXCEPT ![t] = IdleTask]
    /\ UNCHANGED <<clients, rooms, stats, messages, user_blocks, inbox, hub_now, next_session, next_content, rlVars, storeVars, lockVars, rxVars, sessVars, extVars>>

\* Time passes.
Tick ==
    /\ hub_now < MaxNow
    /\ hub_now' = hub_now + 1
    /\ UNCHANGED <<clients, rooms, stats, messages, user_blocks, inbox, next_session, next_content, tasks, rlVars, storeVars, lockVars, rxVars, sessVars, extVars>>

RegistryNext ==
    \/ \E t \in Workers, u \in Users : Register(t, u)
    \/ \E t \in Workers, u \in Users : UnregisterClients(t, u)
    \/ \E t \in Tasks : UnregisterRooms(t)
    \/ \E r \in Rooms, u \in Users : JoinRoom(r, u)
    \/ \E t \in Supervisor : CleanupScan(t)
    \/ \E t \in Tasks : CleanupUnregister(t)
    \/ \E t \in Tasks : CleanupPurge(t)
    \/ \E t \in Tasks : Return(t)
    \/ Tick

RegistryInit ==
    /\ HubStart
    /\ user_blocks = {}
    /\ RLStart
    /\ StoreStart
    /\ rl_action = "SendMessage"
    /\ rl_gran = BurstWindow

SpecRegistry == RegistryInit /\ [][RegistryNext]_vars

\* An unregister of `u` is between its removal of the session and its purge of
\* the rooms.
MidUnregister(u) ==
    \E t \in Tasks : \/ tasks[t].pc = "U_rooms" /\ tasks[t].user = u
                     \/ tasks[t].pc = "C_rooms" /\ tasks[t].cur = u

\* C2: every user id in a room's member list is in the session registry, or a
\* later run of cleanup_dead_connections removes it from the member list: when a
\* run has returned, no member is left without a session (but for a member that
\* joined or registered while the run went on, or that an unregister is removing).
C2_MembersHaveSessions ==
    \A t \in Tasks :
        tasks[t].op = "cleanup" /\ tasks[t].pc = "done" =>
            \A r \in Rooms : \A u \in Members(r) :
                Registered(u) \/ u \in tasks[t].touched \/ MidUnregister(u)

RegisterStep(t) == tasks[t].pc = "idle" /\ tasks'[t].op = "register"

\* C4: a register of a user replaces the session the user had: afterwards the
\* registry maps the user to the new session and to no other, its size is what it
\* was, and in every state a user id has at most one session.
C4_RegisterReplaces ==
    /\ [](\A u \in Users : Cardinality({e \in clients : e[1] = u}) <= 1)
    /\ [][\A t \in Tasks : RegisterStep(t) =>
            LET u == tasks'[t].user
            IN  /\ {e[2].session : e \in {c \in clients' : c[1] = u}} = {tasks'[t].session}
                /\ tasks'[t].session \notin {e[2].session : e \in clients}
                /\ Registered(u) => Cardinality(clients') = Cardinality(clients)
                /\ stats'.active_connections = Cardinality(clients')]_vars

\* A register that replaced a session: the registry is as large as before it.
C4_Witness ==
    \E t \in Tasks :
        /\ tasks[t].op = "register" /\ tasks[t].pc = "done"
        /\ tasks[t].before >= 1
        /\ tasks[t].before = Cardinality(clients)
        /\ tasks[t].session > 1
        /\ \E c \in clients : c[1] = tasks[t].user /\ c[2].session = tasks[t].session

\* C5: a session whose last activity is more than 3 x heartbeat_interval in the
\* past at the scan of cleanup_dead_connections is, when the run has returned and
\* no register or join_room of its user came in between, in no registry: the user
\* has no session and is in no room's member list; and a session whose last
\* activity is within 3 x heartbeat_interval at the scan is not removed by the run.
C5_CleanupRemovesDead ==
    \A t \in Tasks :
        tasks[t].op = "cleanup" /\ tasks[t].pc = "done" =>
            /\ \A u \in tasks[t].expired :
                    u \notin tasks[t].touched =>
                        /\ ~Registered(u)
                        /\ \A r \in Rooms : u \notin Members(r)
            /\ tasks[t].removed \cap tasks[t].fresh = {}

\* A run that removed an expired session of a room member and left a fresh one.
C5_Witness ==
    \E t \in Tasks :
        /\ tasks[t].op = "cleanup" /\ tasks[t].pc = "done"
        /\ tasks[t].removed # {}
        /\ tasks[t].touched = {}
        /\ \E c \in clients : c[2].session \in tasks[t].fresh
        /\ \E r \in Rooms : rooms[r] # <<>>

\* C25: join_room(r, u) followed by join_room(r, u) yields the member list of a
\* single join (a join of a member changes no list, and after any join the user
\* is a member), and under any interleaving of join_room and unregister calls no
\* user id occurs more than once in a room's member list.
C25_JoinIdempotent ==
    /\ [](\A r \in Rooms : Cardinality(Members(r)) = Len(rooms[r]))
    /\ [][\A r \in Rooms, u \in Users :
            JoinRoom(r, u) =>
                /\ u \in Members(r) => rooms' = rooms
                /\ u \in Range(rooms'[r])
                /\ \A q \in Rooms \ {r} : rooms'[q] = rooms[q]]_vars

\* A room has two members, one of them joined again after an unregister removed
\* the user's session, and that unregister has yet to purge the rooms.
C25_Witness ==
    \E r \in Rooms :
        /\ Len(rooms[r]) = 2
        /\ \E u \in Members(r) : ~Registered(u) /\ MidUnregister(u)

(***************************************************************************)
(* MessageHandler and the send paths of the hub: broadcast_to_room, send_dm *)
(***************************************************************************)
\* What the tests made outside the hub answer for a request: the permission
\* check, the validation of the room name and the content, the rate limiter.
Verdicts == {"Ok", "permission", "validation", "rate_limit"}

\* A membership test that answers true for everyone.
IsUserInRoom_Anyone(user_id, room) == TRUE

\* MessageHandler::is_user_in_room
IsUserInRoom(user_id, room) == user_id \in Range(rooms[room])

\* MessageHandler::is_user_blocked: Ok(false), whatever the user_blocks table says
IsUserBlocked(from_user, to_user) == FALSE

\* INSERT INTO messages ... RETURNING id: the row gets the next id of the table.
NextId(rows) == Len(rows) + 1

InsertRow(rows, from_user, room, to_user, content) ==
    Append(rows, [id |-> NextId(rows), from_user |-> from_user, room |-> room,
                  to_user |-> to_user, content |-> content])

\* A failing INSERT that leaves its row behind.
InsertFailed_Partial(rows, from_user, room, to_user, content) ==
    InsertRow(rows, from_user, room, to_user, content)

\* fetch_one(...).await answered Err: no row
InsertFailed(rows, from_user, room, to_user, content) == rows

\* A frame that carries an id other than the one the INSERT returned.
RoomPayload_OtherId(message_id, user_id, room, msg) ==
    [type |-> "message", id |-> message_id + 1, fromUser |-> user_id,
     content |-> msg, room |-> room]

\* the payload of broadcast_to_room
RoomPayload(message_id, user_id, room, msg) ==
    [type |-> "message", id |-> message_id, fromUser |-> user_id,
     content |-> msg, room |-> room]

\* the payload of send_dm (it has no room)
DmPayload(message_id, from_user, content) ==
    [type |-> "dm", id |-> message_id, fromUser |-> from_user,
     content |-> content, room |-> ""]

\* A sink that hands its newest frame over first.
SendTo_Front(boxes, id, payload) ==
    IF ContainsKey(clients, id) /\ SendText(Get(clients, id))
    THEN [boxes EXCEPT ![Get(clients, id).session] = <<payload>> \o @]
    ELSE boxes

\* if let Some(client) = clients.get(id) { client.send_text(payload) }
SendTo(boxes, id, payload) ==
    IF ContainsKey(clients, id) /\ SendText(Get(clients, id))
    THEN [boxes EXCEPT ![Get(clients, id).session] = Append(@, payload)]
    ELSE boxes

\* A loop that gives up at the first member without a session.
RECURSIVE FanOut_StopAtMissing(_, _, _)
FanOut_StopAtMissing(boxes, user_ids, payload) ==
    IF user_ids = <<>> \/ ~ContainsKey(clients, Head(user_ids)) THEN boxes
    ELSE FanOut_StopAtMissing(SendTo(boxes, Head(user_ids), payload), Tail(user_ids),
                              payload)

\* for id in user_ids { ... }
RECURSIVE FanOut(_, _, _)
FanOut(boxes, user_ids, payload) ==
    IF user_ids = <<>> THEN boxes
    ELSE FanOut(SendTo(boxes, Head(user_ids), payload), Tail(user_ids), payload)

\* The request of a task ends with an error.
Failed(t, op, err) ==
    [tasks EXCEPT ![t] = [IdleTask EXCEPT !.op = op, !.pc = "done",
                                          !.content = next_content,
                                          !.res = "Err", !.err = err]]

\* handle_room_message, from the call to the INSERT of broadcast_to_room: the
\* permission check, the validation, the membership check, the rate limit.
HandleRoomMessage(t, user_id, room, verdict) ==
    /\ tasks[t].pc = "idle"
    /\ next_content <= MaxRequests
    /\ next_content' = next_content + 1
    /\ LET err == IF verdict \in {"permission", "validation"} THEN verdict
                  ELSE IF ~IsUserInRoom(user_id, room) THEN "membership"
                  ELSE IF verdict = "rate_limit" THEN "rate_limit"
                  ELSE "none"
       IN  tasks' = IF err # "none"
                    THEN Failed(t, "room_message", err)
                    ELSE [tasks EXCEPT ![t] =
                            [IdleTask EXCEPT !.op = "room_message", !.pc = "B_insert",
                                             !.user = user_id, !.room = room,
                                             !.content = next_content]]
    /\ UNCHANGED <<clients, rooms, stats, messages, user_blocks, inbox, hub_now, next_session, rlVars, storeVars, lockVars, rxVars, sessVars, extVars>>

\* broadcast_to_room: the INSERT, which the database accepts or refuses
BroadcastInsert(t, db_ok) ==
    /\ tasks[t].pc = "B_insert"
    /\ IF db_ok
       THEN /\ messages' = InsertRow(messages, tasks[t].user, tasks[t].room, 0,
                                     tasks[t].content)
            /\ tasks' = [tasks EXCEPT ![t].pc = "B_count", ![t].msg = NextId(messages)]
       ELSE /\ messages' = InsertFailed(messages, tasks[t].user, tasks[t].room, 0,
                                        tasks[t].content)
            /\ tasks' = [tasks EXCEPT ![t].pc = "done", ![t].res = "Err",
                                      ![t].err = "database"]
    /\ UNCHANGED <<clients, rooms, stats, user_blocks, inbox, hub_now,
                   next_session, next_content, rlVars, storeVars, lockVars, rxVars, sessVars, extVars>>

\* A counter that moves by two for one message.
IncrementMessageCount_Twice(s) == [s EXCEPT !.total_messages = @ + 2]

\* ChatHub::increment_message_count: stats.total_messages += 1
IncrementMessageCount(s) == [s EXCEPT !.total_messages = @ + 1]

\* ChatHub::increment_message_count, called by broadcast_to_room
BroadcastCount(t) ==
    /\ tasks[t].pc = "B_count"
    /\ stats' = IncrementMessageCount(stats)
    /\ tasks' = [tasks EXCEPT ![t].pc = "B_clients", ![t].counted = TRUE]
    /\ UNCHANGED <<clients, rooms, messages, user_blocks, inbox, hub_now,
                   next_session, next_content, rlVars, storeVars, lockVars, rxVars, sessVars, extVars>>

\* broadcast_to_room: hub.clients.read().await
BroadcastLockClients(t) ==
    /\ tasks[t].pc = "B_clients"
    /\ CanReadClients
    /\ tasks' = [tasks EXCEPT ![t].pc = "B_rooms"]
    /\ UNCHANGED <<clients, rooms, stats, messages, user_blocks, inbox, hub_now, next_session, next_content, rlVars, storeVars, lockVars, rxVars, sessVars, extVars>>

\* broadcast_to_room: hub.rooms.read().await, the loop over the members, Ok(())
BroadcastFanout(t) ==
    /\ tasks[t].pc = "B_rooms"
    /\ inbox' = FanOut(inbox, rooms[tasks[t].room],
                       RoomPayload(tasks[t].msg, tasks[t].user, tasks[t].room,
                                   tasks[t].content))
    /\ tasks' = [tasks EXCEPT ![t].pc = "done", ![t].res = "Ok"]
    /\ UNCHANGED <<clients, rooms, stats, messages, user_blocks, hub_now,
                   next_session, next_content, rlVars, storeVars, lockVars, rxVars, sessVars, extVars>>

\* handle_direct_message, from the call to the INSERT of send_dm: the permission
\* check, the sanitizing, the rate limit, the block check (a blocked sender is
\* answered Ok), then in send_dm the validation, the DM to oneself, the rate limit.
HandleDirectMessage(t, from_user, to_user, verdict) ==
    /\ tasks[t].pc = "idle"
    /\ next_content <= MaxRequests
    /\ next_content' = next_content + 1
    /\ tasks' =
         IF verdict # "Ok"
         THEN Failed(t, "direct_message", verdict)
         ELSE IF IsUserBlocked(from_user, to_user)
         THEN [tasks EXCEPT ![t] =
                 [IdleTask EXCEPT !.op = "direct_message", !.pc = "done",
                                  !.user = from_user, !.to = to_user,
                                  !.content = next_content, !.res = "Ok"]]
         ELSE IF from_user = to_user
         THEN Failed(t, "direct_message", "self_dm")
         ELSE [tasks EXCEPT ![t] =
                 [IdleTask EXCEPT !.op = "direct_message", !.pc = "D_insert",
                                  !.user = from_user, !.to = to_user,
                                  !.content = next_content]]
    /\ UNCHANGED <<clients, rooms, stats, messages, user_blocks, inbox, hub_now, next_session, rlVars, storeVars, lockVars, rxVars, sessVars, extVars>>

\* send_dm: the INSERT, which the database accepts or refuses
DmInsert(t, db_ok) ==
    /\ tasks[t].pc = "D_insert"
    /\ IF db_ok
       THEN /\ messages' = InsertRow(messages, tasks[t].user, "", tasks[t].to,
                                     tasks[t].content)
            /\ tasks' = [tasks EXCEPT ![t].pc = "D_count", ![t].msg = NextId(messages)]
       ELSE /\ messages' = InsertFailed(messages, tasks[t].user, "", tasks[t].to,
                                        tasks[t].content)
            /\ tasks' = [tasks EXCEPT ![t].pc = "done", ![t].res = "Err",
                                      ![t].err = "database"]
    /\ UNCHANGED <<clients, rooms, stats, user_blocks, inbox, hub_now,
                   next_session, next_content, rlVars, storeVars, lockVars, rxVars, sessVars, extVars>>

\* ChatHub::increment_message_count, called by send_dm
DmCount(t) ==
    /\ tasks[t].pc = "D_count"
    /\ stats' = IncrementMessageCount(stats)
    /\ tasks' = [tasks EXCEPT ![t].pc = "D_clients", ![t].counted = TRUE]
    /\ UNCHANGED <<clients, rooms, messages, user_blocks, inbox, hub_now,
                   next_session, next_content, rlVars, storeVars, lockVars, rxVars, sessVars, extVars>>

\* send_dm: hub.clients.read().await, the send to the recipient's session, Ok(())
DmDeliver(t) ==
    /\ tasks[t].pc = "D_clients"
    /\ CanReadClients
    /\ inbox' = SendTo(inbox, tasks[t].to,
                       DmPayload(tasks[t].msg, tasks[t].user, tasks[t].content))
    /\ tasks' = [tasks EXCEPT ![t].pc = "done", ![t].res = "Ok"]
    /\ UNCHANGED <<clients, rooms, stats, messages, user_blocks, hub_now,
                   next_session, next_content, rlVars, storeVars, lockVars, rxVars, sessVars, extVars>>

\* The receiving end of a registered session's outbound channel is dropped.
CloseSink(user_id) ==
    /\ ContainsKey(clients, user_id)
    /\ Get(clients, user_id).open
    /\ clients' = HashMapInsert(clients, user_id,
                                [Get(clients, user_id) EXCEPT !.open = FALSE])
    /\ UNCHANGED <<rooms, stats, messages, user_blocks, inbox, hub_now,
                   next_session, next_content, tasks, rlVars, storeVars, lockVars, rxVars, sessVars, extVars>>

\* validate_limit: the limit when it lies in 1..500, InvalidInput otherwise
ValidateLimit(limit) == IF limit >= 1 /\ limit <= 500 THEN Some(limit) ELSE None

\* The timestamp column of a row: the time of its INSERT, later for a later row.
Timestamp(row) == row.id

\* ORDER BY m.timestamp ASC, over a set of rows
OrderByTimestampAsc(S) ==
    [k \in 1..Cardinality(S) |->
        CHOOSE r \in S : Cardinality({q \in S : Timestamp(q) < Timestamp(r)}) = k - 1]

\* The query of fetch_room_history: SELECT ... FROM messages m JOIN users u ...
\* WHERE m.room = $1 ORDER BY m.timestamp ASC LIMIT $2 (every sender has a row
\* in users)
RoomHistoryRows(room, limit) ==
    Limit(OrderByTimestampAsc({messages[i] : i \in
              {j \in 1..Len(messages) : messages[j].room = room}}), limit)

\* handle_room_history, from the call to the query of fetch_room_history: the
\* permission check, the validation of the room name, the membership check, the
\* validation of the limit.
HandleRoomHistory(t, user_id, room, limit, verdict) ==
    /\ tasks[t].pc = "idle"
    /\ LET err == IF verdict \in {"permission", "validation"} THEN verdict
                  ELSE IF ~IsUserInRoom(user_id, room) THEN "membership"
                  ELSE IF ValidateLimit(limit) = None THEN "validation"
                  ELSE "none"
       IN  tasks' = [tasks EXCEPT ![t] =
                       IF err # "none"
                       THEN [IdleTask EXCEPT !.op = "room_history", !.pc = "done",
                                             !.res = "Err", !.err = err]
                       ELSE [IdleTask EXCEPT !.op = "room_history", !.pc = "H_fetch",
                                             !.user = user_id, !.room = room,
                                             !.limit = ValidateLimit(limit)[1]]]
    /\ UNCHANGED <<clients, rooms, stats, messages, user_blocks, inbox, hub_now,
                   next_session, next_content, rlVars, storeVars, lockVars, rxVars, sessVars, extVars>>

\* fetch_room_history: the query, then the room_history frame handed to the
\* sender of the request, with the messages in the order of the query.
FetchRoomHistory(t, db_ok, sent) ==
    /\ tasks[t].pc = "H_fetch"
    /\ tasks' = [tasks EXCEPT ![t] =
                   IF ~db_ok
                   THEN [IdleTask EXCEPT !.op = "room_history", !.pc = "done",
                                         !.res = "Err", !.err = "database"]
                   ELSE IF ~sent
                   THEN [IdleTask EXCEPT !.op = "room_history", !.pc = "done",
                                         !.res = "Err", !.err = "send"]
                   ELSE [IdleTask EXCEPT !.op = "room_history", !.pc = "done",
                                         !.res = "Ok", !.room = tasks[t].room,
                                         !.limit = tasks[t].limit,
                                         !.history =
                                             RoomHistoryRows(tasks[t].room, tasks[t].limit)]]
    /\ UNCHANGED <<clients, rooms, stats, messages, user_blocks, inbox, hub_now,
                   next_session, next_content, rlVars, storeVars, lockVars, rxVars, sessVars, extVars>>

\* The limits a history request names.
HistoryLimits == {0, 1, 2}

\* The task that serves the sending connection, the users that send and the
\* rooms they send to.
Sender == {1}
SendingUsers == {1}
SendRooms == {"general"}

HubNext ==
    \/ \E t \in Workers, u \in Users : Register(t, u)
    \/ \E t \in Workers, u \in Users : UnregisterClients(t, u)
    \/ \E t \in Tasks : UnregisterRooms(t)
    \/ \E r \in SendRooms, u \in Users : JoinRoom(r, u)
    \/ \E t \in Sender, u \in SendingUsers, r \in SendRooms, v \in Verdicts : HandleRoomMessage(t, u, r, v)
    \/ \E t \in Tasks, ok \in BOOLEAN : BroadcastInsert(t, ok)
    \/ \E t \in Tasks : BroadcastCount(t)
    \/ \E t \in Tasks : BroadcastLockClients(t)
    \/ \E t \in Tasks : BroadcastFanout(t)
    \/ \E t \in Sender, u \in SendingUsers, w \in Users, v \in Verdicts : HandleDirectMessage(t, u, w, v)
    \/ \E t \in Tasks, ok \in BOOLEAN : DmInsert(t, ok)
    \/ \E t \in Tasks : DmCount(t)
    \/ \E t \in Tasks : DmDeliver(t)
    \/ \E u \in Users : CloseSink(u)
    \/ \E t \in Tasks : Return(t)

\* The rows of user_blocks a behaviour starts with: user 2 has blocked user 1.
BlockTables == {{<<2, 1>>}}

HubInit ==
    /\ HubStart
    /\ user_blocks \in BlockTables
    /\ RLStart
    /\ StoreStart
    /\ rl_action = "SendMessage"
    /\ rl_gran = BurstWindow

SpecHub == HubInit /\ [][HubNext]_vars


(***************************************************************************)
(* The room sends of one connection and the room history requests of       *)
(* another, with the session registry left alone.                          *)
(***************************************************************************)
HistoryNext ==
    \/ \E r \in Rooms, u \in Users : JoinRoom(r, u)
    \/ \E t \in Sender, u \in SendingUsers, r \in Rooms : HandleRoomMessage(t, u, r, "Ok")
    \/ \E t \in Tasks, ok \in BOOLEAN : BroadcastInsert(t, ok)
    \/ \E t \in Tasks : BroadcastCount(t)
    \/ \E t \in Tasks : BroadcastLockClients(t)
    \/ \E t \in Tasks : BroadcastFanout(t)
    \/ \E t \in Workers, u \in Users, r \in Rooms, l \in HistoryLimits,
          v \in {"Ok", "permission", "validation"} : HandleRoomHistory(t, u, r, l, v)
    \/ \E t \in Workers, ok \in BOOLEAN, sent \in BOOLEAN : FetchRoomHistory(t, ok, sent)
    \/ \E t \in Tasks : Return(t)

SpecHistory == HubInit /\ [][HistoryNext]_vars


(***************************************************************************)
(* The room and direct sends of two connections at once, with the session  *)
(* registry left alone.                                                    *)
(***************************************************************************)
CountNext ==
    \/ \E r \in SendRooms, u \in SendingUsers : JoinRoom(r, u)
    \/ \E t \in Tasks, u \in SendingUsers, r \in SendRooms, v \in Verdicts : HandleRoomMessage(t, u, r, v)
    \/ \E t \in Tasks, ok \in BOOLEAN : BroadcastInsert(t, ok)
    \/ \E t \in Tasks : BroadcastCount(t)
    \/ \E t \in Tasks : BroadcastLockClients(t)
    \/ \E t \in Tasks : BroadcastFanout(t)
    \/ \E t \in Tasks, u \in SendingUsers, w \in Users, v \in Verdicts : HandleDirectMessage(t, u, w, v)
    \/ \E t \in Tasks, ok \in BOOLEAN : DmInsert(t, ok)
    \/ \E t \in Tasks : DmCount(t)
    \/ \E t \in Tasks : DmDeliver(t)
    \/ \E t \in Tasks : Return(t)

SpecCount == HubInit /\ [][CountNext]_vars
\* The step of task `t` that ends its unregister (from rooms.write() to the return).
UnregisterReturns(t) == tasks[t].pc = "U_rooms" /\ tasks'[t].pc # "U_rooms"

\* C3: unregister(u) is atomic for the fan-outs: while a broadcast_to_room holds
\* the clients guard it took for its fan-out, no unregister is between its removal
\* of the session and its purge of the rooms, so the fan-out never reads the
\* rooms of a half-done unregister; and when unregister(u) returns, u is in no
\* room's member list.
C3_UnregisterAtomic ==
    /\ [](\A t \in Tasks : HoldsClientsRead(t) => \A u \in Users : ~MidUnregister(u))
    /\ [][\A t \in Tasks : UnregisterReturns(t) =>
            \A r \in Rooms : tasks[t].user \notin Range(rooms'[r])]_vars

\* A broadcast to a room waits for the clients guard while an unregister of a
\* member of that room has removed the session and not yet purged the rooms.
C3_Witness ==
    \E t \in Tasks, b \in Tasks :
        /\ tasks[t].pc = "U_rooms"
        /\ tasks[b].pc = "B_clients"
        /\ tasks[t].user \in Members(tasks[b].room)
        /\ ~Registered(tasks[t].user)

\* The row of the messages table a frame was made from.
FrameHasRow(frame, rows) ==
    \E i \in 1..Len(rows) :
        /\ rows[i].id = frame.id
        /\ rows[i].content = frame.content
        /\ rows[i].from_user = frame.fromUser
        /\ rows[i].room = frame.room
        /\ (frame.type = "dm") = (rows[i].to_user # 0)

\* C6: a frame is sent to a session only after the row it carries the id of has
\* been inserted: every step that delivers a frame finds, in the table as it was
\* before the step, the row with the frame's id, and that row is the one of the
\* frame's request (same content, sender and room).
C6_InsertPrecedesDelivery ==
    [][\A s \in Sessions : \A i \in 1..Len(inbox'[s]) :
          i > Len(inbox[s]) => FrameHasRow(inbox'[s][i], messages)]_vars

\* A `dm` frame and a `message` frame have been delivered, the second with the
\* id of the second row.
C6_Witness ==
    /\ \E s \in Sessions : \E i \in 1..Len(inbox[s]) : inbox[s][i].type = "dm"
    /\ \E s \in Sessions : \E i \in 1..Len(inbox[s]) :
          inbox[s][i].type = "message" /\ inbox[s][i].id = 2

\* How many frames of the request with content `c` the session `s` has received.
FramesOf(s, c) == Cardinality({i \in 1..Len(inbox[s]) : inbox[s][i].content = c})

RowsOf(c) == {i \in 1..Len(messages) : messages[i].content = c}

\* C7: when handle_room_message or handle_direct_message has returned an error,
\* no row of the request is in the messages table, no session has received a
\* frame of it, and the request has not counted in total_messages (which is the
\* number of rows).
C7_ErrorLeavesNothing ==
    \A t \in Tasks :
        /\ tasks[t].op \in {"room_message", "direct_message"}
        /\ tasks[t].pc = "done"
        /\ tasks[t].res = "Err"
        => /\ RowsOf(tasks[t].content) = {}
           /\ \A s \in Sessions : FramesOf(s, tasks[t].content) = 0
           /\ ~tasks[t].counted
           /\ stats.total_messages = Len(messages)

\* A send refused by the database, after an earlier send was stored and delivered.
C7_Witness ==
    \E t \in Tasks :
        /\ tasks[t].pc = "done" /\ tasks[t].res = "Err" /\ tasks[t].err = "database"
        /\ Len(messages) >= 1
        /\ \E s \in Sessions : inbox[s] # <<>>

\* C8: after a successful room send by a member with no registry change during
\* it, there is exactly one row of the send; a session receives at most one frame
\* of it, carrying the row's id; the session of every member of the room whose
\* sink is open has received one; a session of no member has received none.
C8_RoomSendDelivers ==
    \A t \in Tasks :
        /\ tasks[t].op = "room_message"
        /\ tasks[t].pc = "done"
        /\ tasks[t].res = "Ok"
        /\ tasks[t].quiet
        => LET c == tasks[t].content
               r == tasks[t].room
           IN  /\ Cardinality(RowsOf(c)) = 1
               /\ \A i \in RowsOf(c) : messages[i].id = tasks[t].msg
               /\ \A s \in Sessions :
                    LET owners == {u \in Members(r) :
                                     Registered(u) /\ Get(clients, u).session = s}
                    IN  /\ FramesOf(s, c) <= 1
                        /\ owners = {} => FramesOf(s, c) = 0
                        /\ \A u \in owners :
                             SendText(Get(clients, u)) => FramesOf(s, c) = 1
                        /\ \A i \in 1..Len(inbox[s]) :
                             inbox[s][i].content = c =>
                                inbox[s][i].id = tasks[t].msg /\ inbox[s][i].type = "message"

\* A room send, the second stored message, that reached the sender and the other
\* member of the room.
C8_Witness ==
    \E t \in Tasks :
        /\ tasks[t].op = "room_message" /\ tasks[t].pc = "done"
        /\ tasks[t].res = "Ok" /\ tasks[t].quiet
        /\ Len(rooms[tasks[t].room]) = 2
        /\ \A u \in Members(tasks[t].room) :
              /\ Registered(u)
              /\ FramesOf(Get(clients, u).session, tasks[t].content) = 1
        /\ tasks[t].msg = 2

\* C9: when the recipient has blocked the sender, a direct message the handler
\* answers with success reaches no session.
C9_BlockedDmDropped ==
    \A t \in Tasks :
        /\ tasks[t].op = "direct_message"
        /\ tasks[t].pc = "done"
        /\ tasks[t].res = "Ok"
        /\ <<tasks[t].to, tasks[t].user>> \in user_blocks
        => \A s \in Sessions : FramesOf(s, tasks[t].content) = 0


\* C14: the history the handler delivers for a room and a limit L holds only
\* messages of that room, at most L of them, the newest first, and they are the
\* L most recent of the room when it has more than L: no message of the room
\* left out is newer than a delivered one.
C14_HistoryNewestFirst ==
    [][\A t \in Tasks :
         (/\ tasks[t].pc = "H_fetch"
          /\ tasks'[t].pc = "done"
          /\ tasks'[t].res = "Ok")
         => LET h == tasks'[t].history
                room == tasks[t].room
                L == tasks[t].limit
                ofroom == {messages[i] : i \in {j \in 1..Len(messages) :
                                                   messages[j].room = room}}
            IN  /\ \A i \in 1..Len(h) : h[i].room = room
                /\ Len(h) <= L
                /\ \A i, j \in 1..Len(h) : i < j => Timestamp(h[i]) > Timestamp(h[j])
                /\ Cardinality(ofroom) >= L => Len(h) = L
                /\ \A m \in ofroom \ Range(h) :
                      \A i \in 1..Len(h) : Timestamp(m) < Timestamp(h[i])
      ]_vars

\* The requests of the sending connection are numbered in the order they are
\* made, and it makes one only when the one before has returned.
RoomFrames(s) == {k \in 1..Len(inbox[s]) : inbox[s][k].type = "message"}

\* C18: of two room messages of one sender to one room, the second started when
\* the first was fully handled, the first has the smaller id, and a session
\* that receives the frames of both receives the frame of the first before the
\* frame of the second.
C18_SendOrderKept ==
    /\ \A i, j \in 1..Len(messages) :
          (/\ messages[i].room # ""
           /\ messages[i].room = messages[j].room
           /\ messages[i].from_user = messages[j].from_user
           /\ messages[i].content < messages[j].content)
          => messages[i].id < messages[j].id
    /\ \A s \in Sessions : \A p, q \in RoomFrames(s) :
          (/\ inbox[s][p].room = inbox[s][q].room
           /\ inbox[s][p].fromUser = inbox[s][q].fromUser
           /\ inbox[s][p].content < inbox[s][q].content)
          => (p < q /\ inbox[s][p].id < inbox[s][q].id)

\* A session has received the frames of two room messages of the same sender.
C18_Witness ==
    \E s \in Sessions : \E p, q \in RoomFrames(s) :
        /\ p < q
        /\ inbox[s][p].fromUser = inbox[s][q].fromUser
        /\ inbox[s][p].room = inbox[s][q].room
        /\ inbox[s][p].id < inbox[s][q].id
        /\ \A t \in Tasks : tasks[t].pc \in {"idle", "done"}

\* The sends that have inserted their row and not yet counted it.
BetweenInsertAndCount == {t \in Tasks : tasks[t].pc \in {"B_count", "D_count"}}

\* C20: total_messages never exceeds the number of rows broadcast_to_room and
\* send_dm have inserted since the hub was created, and equals it in every state
\* in which no send is between its insert and its counter increment.
C20_TotalMessagesCountsRows ==
    /\ stats.total_messages <= Len(messages)
    /\ (BetweenInsertAndCount = {} => stats.total_messages = Len(messages))

\* Two connections have sent at once, one to a room and one direct: both rows
\* are stored and counted, and no send is between its insert and its increment.
C20_Witness ==
    /\ BetweenInsertAndCount = {}
    /\ stats.total_messages = 2
    /\ \E i, j \in 1..Len(messages) : messages[i].to_user = 0 /\ messages[j].to_user # 0
    /\ \A t \in Tasks : tasks[t].pc = "done" /\ tasks[t].res = "Ok"

\* C21: whenever no register or unregister holds the clients write lock,
\* stats.active_connections is the number of entries of the session registry;
\* and total_connections, total_messages and total_rooms_created never decrease.
C21_StatsTrackRegistry ==
    /\ []((\A t \in Tasks : ~HoldsClientsWrite(t)) =>
              stats.active_connections = Cardinality(clients))
    /\ [][/\ stats'.total_connections >= stats.total_connections
           /\ stats'.total_messages >= stats.total_messages
           /\ stats'.total_rooms_created >= stats.total_rooms_created]_vars

\* No task holds the clients write lock, one session is registered after two
\* registers and an unregister or a replacement, and a message has been counted.
C21_Witness ==
    /\ \A t \in Tasks : ~HoldsClientsWrite(t)
    /\ stats.total_connections = 2
    /\ stats.active_connections = 1
    /\ Cardinality(clients) = 1
    /\ stats.total_messages >= 1

\* C24: a room send passes the permission check, the validation, the rate limit
\* and the membership check in this order and the first failing step decides: a
\* request that passes the first two, is over the rate limit and comes from a
\* user who is not a member of the room fails with the rate_limit error.
C24_RateLimitBeforeMembership ==
    [][\A t \in Tasks, u \in Users, r \in Rooms :
          HandleRoomMessage(t, u, r, "rate_limit") => tasks'[t].err = "rate_limit"]_vars

\* The room sends that have passed the checks of the handler and not returned.
InBroadcast(t) ==
    tasks[t].op = "room_message" /\ tasks[t].pc \in {"B_insert", "B_count", "B_clients", "B_rooms"}

\* C28: a room message that passed the handler's checks is persisted and fanned
\* out whatever happens to the sender's session meanwhile: only a refusal of the
\* INSERT by the database ends the send with an error, past the INSERT the row is
\* in the table, and the fan-out gives one frame to the session of every member
\* that is registered with an open sink, and none to any other session.
C28_SendOutlivesSession ==
    /\ [](\A t \in Tasks :
            \/ InBroadcast(t) /\ tasks[t].pc # "B_insert"
            \/ tasks[t].op = "room_message" /\ tasks[t].pc = "done" /\ tasks[t].res = "Ok"
            => Cardinality(RowsOf(tasks[t].content)) = 1)
    /\ [][\A t \in Tasks :
            /\ (InBroadcast(t) /\ tasks'[t].pc = "done" /\ tasks'[t].res = "Err")
               => /\ tasks[t].pc = "B_insert"
                  /\ tasks'[t].err = "database"
                  /\ messages' = messages
            /\ (tasks[t].pc = "B_rooms" /\ tasks'[t].pc = "done")
               => /\ tasks'[t].res = "Ok"
                  /\ \A s \in Sessions :
                        LET owners == {u \in Members(tasks[t].room) :
                                         /\ Registered(u)
                                         /\ Get(clients, u).session = s
                                         /\ SendText(Get(clients, u))}
                        IN  FramesOf(s, tasks[t].content)' =
                                IF owners = {} THEN 0 ELSE 1]_vars

\* A room send has returned Ok after a registry change: its sender has no
\* session and is in no member list any more, the row is stored, and the one
\* frame of it went to the session of the member that is left.
C28_Witness ==
    \E t \in Tasks :
        /\ tasks[t].op = "room_message" /\ tasks[t].pc = "done" /\ tasks[t].res = "Ok"
        /\ ~tasks[t].quiet
        /\ ~Registered(tasks[t].user)
        /\ tasks[t].user \notin Members(tasks[t].room)
        /\ Cardinality(RowsOf(tasks[t].content)) = 1
        /\ \E u \in Members(tasks[t].room) :
              /\ Registered(u)
              /\ FramesOf(Get(clients, u).session, tasks[t].content) = 1
        /\ Cardinality({s \in Sessions : FramesOf(s, tasks[t].content) > 0}) = 1


\* C35: cleanup_dead_connections removes only sessions that are dead when they
\* are removed: the session its unregister takes out of the registry fails
\* is_alive at that moment, whatever was registered since the scan.
C35_CleanupRemovesOnlyDead ==
    [][\A t \in Tasks :
          tasks[t].pc = "C_next" /\ tasks'[t].pc = "C_rooms"
          => \A e \in clients \ clients' : ~IsAlive(e[2], Timeout)]_vars

\* C38 as stated: the author of a room message is a member of the room at the
\* moment its row is inserted.
C38_MemberAtInsert ==
    [][\A t \in Tasks :
          tasks[t].pc = "B_insert" /\ tasks'[t].pc = "B_count"
          => tasks[t].user \in Members(tasks[t].room)]_vars

\* C38, amended: the author of every persisted room message was a member of the
\* room when the handler's membership test ran; the row a send inserts is the
\* row of that author and that room, whether or not the author is still a
\* member when it is inserted.
C38_MemberAtCheck ==
    [][\A t \in Tasks :
          /\ (tasks[t].pc = "idle" /\ tasks'[t].pc = "B_insert")
             => tasks'[t].user \in Members(tasks'[t].room)
          /\ (tasks[t].pc = "B_insert" /\ tasks'[t].pc = "B_count")
             => /\ Len(messages') = Len(messages) + 1
                /\ messages'[Len(messages')].from_user = tasks[t].user
                /\ messages'[Len(messages')].room = tasks[t].room
          /\ (Len(messages') > Len(messages) /\ messages'[Len(messages')].to_user = 0)
             => \E x \in Tasks : tasks[x].pc = "B_insert" /\ tasks'[x].pc = "B_count"]_vars

\* The row of a room send is in the table and its author, purged by an
\* unregister since the membership test, is no member of the room.
C38_Witness ==
    \E t \in Tasks :
        /\ tasks[t].op = "room_message"
        /\ tasks[t].pc \in {"B_count", "B_clients", "B_rooms"}
        /\ tasks[t].user \notin Members(tasks[t].room)
        /\ \E i \in 1..Len(messages) :
              /\ messages[i].id = tasks[t].msg
              /\ messages[i].from_user = tasks[t].user
              /\ messages[i].room = tasks[t].room

(***************************************************************************)
(* The locks of ChatHub. Each hub operation is the sequence of its lock    *)
(* instructions: the .read().await and .write().await calls in the order   *)
(* of the code, and the places where the guards go out of scope.           *)
(***************************************************************************)
Locks == {"clients", "rooms", "stats"}

Acquire(lock, mode) == [kind |-> "acquire", lock |-> lock, mode |-> mode]

Release(lock) == [kind |-> "release", lock |-> lock, mode |-> "none"]

\* An unregister whose stats guard lives to the end of the function.
UnregisterFound_StatsKept ==
    <<Acquire("clients", "write"), Acquire("stats", "write"),
      Acquire("rooms", "write"), Release("rooms"), Release("stats"),
      Release("clients")>>

\* unregister when clients.remove answers Some: the stats guard is a local of
\* the if-let block and is dropped at its end, before rooms.write()
UnregisterFound ==
    <<Acquire("clients", "write"), Acquire("stats", "write"), Release("stats"),
      Acquire("rooms", "write"), Release("rooms"), Release("clients")>>

\* unregister when clients.remove answers None
UnregisterAbsent ==
    <<Acquire("clients", "write"), Acquire("rooms", "write"), Release("rooms"),
      Release("clients")>>

\* increment_message_count
IncrementLocks == <<Acquire("stats", "write"), Release("stats")>>

\* cleanup_dead_connections: the scan in its own block
CleanupScanLocks == <<Acquire("clients", "read"), Release("clients")>>

\* A fan-out that looks up the members before it takes the clients lock.
BroadcastFanoutLocks_RoomsFirst ==
    <<Acquire("rooms", "read"), Acquire("clients", "read"), Release("clients"),
      Release("rooms")>>

\* broadcast_to_room after the insert: clients.read(), then rooms.read(), both
\* guards held over the sends
BroadcastFanoutLocks ==
    <<Acquire("clients", "read"), Acquire("rooms", "read"), Release("rooms"),
      Release("clients")>>

LockProgram(op) ==
    CASE op = "register" ->
           <<Acquire("clients", "write"), Acquire("stats", "write"),
             Release("stats"), Release("clients")>>
      [] op = "unregister" -> UnregisterFound
      [] op = "unregister_absent" -> UnregisterAbsent
      [] op = "get_stats" -> <<Acquire("stats", "read"), Release("stats")>>
      [] op = "cleanup_dead_connections" ->
           CleanupScanLocks \o UnregisterFound \o UnregisterAbsent
      [] op = "ping_all_clients" -> CleanupScanLocks
      [] op = "join_room" -> <<Acquire("rooms", "write"), Release("rooms")>>
      [] op = "is_user_in_room" -> <<Acquire("rooms", "read"), Release("rooms")>>
      [] op = "broadcast_to_room" -> IncrementLocks \o BroadcastFanoutLocks
      [] op = "send_dm" ->
           IncrementLocks \o <<Acquire("clients", "read"), Release("clients")>>
      [] op = "broadcast_reaction_update" ->
           <<Acquire("clients", "read"), Release("clients")>>

HubOperations ==
    {"register", "unregister", "unregister_absent", "get_stats",
     "cleanup_dead_connections", "ping_all_clients", "join_room", "is_user_in_room",
     "broadcast_to_room", "send_dm", "broadcast_reaction_update"}

\* The instruction a task is at; a task at the end of its operation has none.
AtEnd(t) == lock_tasks[t].pc > Len(LockProgram(lock_tasks[t].op))

Instruction(t) == LockProgram(lock_tasks[t].op)[lock_tasks[t].pc]

Requests(t, lock) ==
    /\ lock_tasks[t].op # "idle"
    /\ ~AtEnd(t)
    /\ Instruction(t).kind = "acquire"
    /\ Instruction(t).lock = lock

Holds(t, lock) == \E g \in lock_tasks[t].held : g.lock = lock

\* RwLock: a write guard excludes every other guard, a read guard excludes the
\* write guards.
Grantable(t, lock, mode) ==
    \A u \in LockTasks \ {t} : \A g \in lock_tasks[u].held :
        g.lock = lock => (mode = "read" /\ g.mode = "read")

LockStart(t, op) ==
    /\ lock_tasks[t].op = "idle"
    /\ lock_tasks' = [lock_tasks EXCEPT ![t] = [IdleLock EXCEPT !.op = op, !.pc = 1]]
    /\ UNCHANGED <<rlVars, hubVars, storeVars, rxVars, sessVars, extVars>>

\* lock.read().await / lock.write().await returns its guard
LockAcquire(t) ==
    /\ \E lock \in Locks : Requests(t, lock)
    /\ Grantable(t, Instruction(t).lock, Instruction(t).mode)
    /\ lock_tasks' = [lock_tasks EXCEPT
                        ![t].held = @ \cup {[lock |-> Instruction(t).lock,
                                             mode |-> Instruction(t).mode]},
                        ![t].pc = @ + 1]
    /\ UNCHANGED <<rlVars, hubVars, storeVars, rxVars, sessVars, extVars>>

\* a guard goes out of scope
LockRelease(t) ==
    /\ lock_tasks[t].op # "idle"
    /\ ~AtEnd(t)
    /\ Instruction(t).kind = "release"
    /\ lock_tasks' = [lock_tasks EXCEPT
                        ![t].held = {g \in @ : g.lock # Instruction(t).lock},
                        ![t].pc = @ + 1]
    /\ UNCHANGED <<rlVars, hubVars, storeVars, rxVars, sessVars, extVars>>

\* the operation returns
LockReturn(t) ==
    /\ lock_tasks[t].op # "idle"
    /\ AtEnd(t)
    /\ lock_tasks' = [lock_tasks EXCEPT ![t] = IdleLock]
    /\ UNCHANGED <<rlVars, hubVars, storeVars, rxVars, sessVars, extVars>>

LocksNext ==
    \/ \E t \in LockTasks, op \in HubOperations : LockStart(t, op)
    \/ \E t \in LockTasks : LockAcquire(t)
    \/ \E t \in LockTasks : LockRelease(t)
    \/ \E t \in LockTasks : LockReturn(t)

SpecLocks == HubInit /\ [][LocksNext]_vars

\* C19: no hub operation requests the clients lock while it holds the rooms or
\* the stats lock, and none requests the rooms lock while it holds the stats
\* lock.
C19_LockOrder ==
    \A t \in LockTasks :
        /\ Requests(t, "clients") => ~Holds(t, "rooms") /\ ~Holds(t, "stats")
        /\ Requests(t, "rooms") => ~Holds(t, "stats")

\* An unregister that has given its stats guard back holds the clients lock and
\* waits for the rooms lock, which a join_room holds, while a register waits for
\* the clients lock.
C19_Witness ==
    \E t, u, v \in LockTasks :
        /\ lock_tasks[t].op = "unregister"
        /\ Holds(t, "clients") /\ Requests(t, "rooms")
        /\ lock_tasks[u].op = "join_room" /\ Holds(u, "rooms")
        /\ lock_tasks[v].op = "register" /\ Requests(v, "clients")

(***************************************************************************)
(* The hub operations on tokio's RwLock, which is fair: the tasks waiting  *)
(* for a lock are served in the order of their requests, so a reader that  *)
(* arrives after a waiting writer waits behind it. A task records, when it *)
(* joins the queue of a lock, the tasks already in that queue.             *)
(***************************************************************************)
Queued(t, lock) == lock_tasks[t].waiting /\ Requests(t, lock)

\* lock.read() / lock.write() is polled and the task joins the queue of the lock
LockEnqueue(t) ==
    /\ \E lock \in Locks : Requests(t, lock)
    /\ ~lock_tasks[t].waiting
    /\ lock_tasks' = [lock_tasks EXCEPT
                        ![t].waiting = TRUE,
                        ![t].ahead = {u \in LockTasks \ {t} :
                                         Queued(u, Instruction(t).lock)}]
    /\ UNCHANGED <<rlVars, hubVars, storeVars, rxVars, sessVars, extVars>>

\* the task at the head of the queue is given its guard once the guards held
\* by the others allow it, and leaves the queue
LockGrant(t) ==
    /\ lock_tasks[t].waiting
    /\ lock_tasks[t].ahead = {}
    /\ Grantable(t, Instruction(t).lock, Instruction(t).mode)
    /\ lock_tasks' = [u \in LockTasks |->
                        IF u = t
                        THEN [lock_tasks[t] EXCEPT
                                !.held = @ \cup {[lock |-> Instruction(t).lock,
                                                  mode |-> Instruction(t).mode]},
                                !.pc = @ + 1, !.waiting = FALSE]
                        ELSE [lock_tasks[u] EXCEPT !.ahead = @ \ {t}]]
    /\ UNCHANGED <<rlVars, hubVars, storeVars, rxVars, sessVars, extVars>>

\* The next step of the operation a task runs.
LockStep(t) == LockEnqueue(t) \/ LockGrant(t) \/ LockRelease(t) \/ LockReturn(t)

\* The operations that take a write guard on the clients or the rooms lock.
WriterOperations == {"register", "unregister", "join_room"}

\* Two tasks run any hub operation, the third the writers only.
OperationsOf(t) == IF t = 3 THEN WriterOperations ELSE HubOperations

FairLocksNext ==
    \/ \E t \in LockTasks : \E op \in OperationsOf(t) : LockStart(t, op)
    \/ \E t \in LockTasks : LockEnqueue(t)
    \/ \E t \in LockTasks : LockGrant(t)
    \/ \E t \in LockTasks : LockRelease(t)
    \/ \E t \in LockTasks : LockReturn(t)

\* The runtime polls every task that can make a step: a database call returns,
\* a guard is dropped, the head of a queue is woken when the lock allows it.
SpecLocksFair ==
    /\ HubInit
    /\ [][FairLocksNext]_vars
    /\ \A t \in LockTasks : WF_vars(LockStep(t))

\* C40: whatever hub operations the tasks run and however they interleave, every
\* operation a task has started returns: no task waits for ever for the clients,
\* the rooms or the stats lock.
C40_EveryOperationCompletes ==
    \A t \in LockTasks : (lock_tasks[t].op # "idle") ~> (lock_tasks[t].op = "idle")

\* An unregister holds the clients lock and is queued for the rooms lock, which
\* a join_room holds; a broadcast_to_room is queued for the clients lock.
C40_Witness ==
    \E t, u, v \in LockTasks :
        /\ lock_tasks[t].op = "unregister"
        /\ Holds(t, "clients") /\ Queued(t, "rooms")
        /\ lock_tasks[u].op = "join_room" /\ Holds(u, "rooms")
        /\ lock_tasks[v].op = "broadcast_to_room" /\ Queued(v, "clients")

(***************************************************************************)
(* Reactions: MessageStore::add_reaction, remove_reaction and              *)
(* get_message_reactions over the message_reactions table.                 *)
(***************************************************************************)
RxUsers == {1, 2}

Emojis == {"like", "love"}

\* The message ids of the calls: message 1 is in the table, message 2 is not.
RxMessages == {1, 2}

\* How many reaction rows are inserted in a behaviour.
RxMaxAdds == 3

Matches(r, message_id, user_id, emoji) ==
    r.message_id = message_id /\ r.user_id = user_id /\ r.emoji = emoji

\* SELECT EXISTS(SELECT 1 FROM messages WHERE id = $1 AND status != 'deleted')
ReactionMessageExists(message_id) ==
    \E i \in 1..Len(store_rows) :
        store_rows[i].id = message_id /\ store_rows[i].status # "deleted"

\* A test that finds no reaction ever.
ReactionExists_Never(table, message_id, user_id, emoji) == FALSE

\* SELECT EXISTS(SELECT 1 FROM message_reactions WHERE message_id = $1 AND
\* user_id = $2 AND emoji = $3)
ReactionExists(table, message_id, user_id, emoji) ==
    \E i \in 1..Len(table) : Matches(table[i], message_id, user_id, emoji)

\* The table is unique on (message_id, user_id, emoji): an INSERT of a triple
\* the table holds is refused by the database.
UniqueViolation(table, message_id, user_id, emoji) ==
    \E i \in 1..Len(table) : Matches(table[i], message_id, user_id, emoji)

\* INSERT INTO message_reactions (message_id, user_id, emoji, created_at)
InsertReaction(table, message_id, user_id, emoji, created_at) ==
    Append(table, [message_id |-> message_id, user_id |-> user_id, emoji |-> emoji,
                   created_at |-> created_at])

\* A DELETE that leaves the emoji out of its WHERE clause.
DeleteReaction_AnyEmoji(table, message_id, user_id, emoji) ==
    SelectSeq(table, LAMBDA r : ~(r.message_id = message_id /\ r.user_id = user_id))

\* DELETE FROM message_reactions WHERE message_id = $1 AND user_id = $2 AND
\* emoji = $3
DeleteReaction(table, message_id, user_id, emoji) ==
    SelectSeq(table, LAMBDA r : ~Matches(r, message_id, user_id, emoji))

\* ... WHERE message_id = $1 ORDER BY created_at
ReactionsOf(table, message_id) ==
    LET S == {table[i] : i \in {j \in 1..Len(table) : table[j].message_id = message_id}}
    IN  [k \in 1..Cardinality(S) |->
            CHOOSE r \in S : Cardinality({q \in S : q.created_at < r.created_at}) = k - 1]

\* get_message_reactions: per emoji, the user ids in the order of the rows
GetMessageReactions(table, message_id) ==
    LET rows == ReactionsOf(table, message_id)
    IN  [e \in {rows[i].emoji : i \in 1..Len(rows)} |->
            LET mine == SelectSeq(rows, LAMBDA r : r.emoji = e)
            IN  [i \in 1..Len(mine) |-> mine[i].user_id]]

\* ReactionSummary: the per-emoji user lists and the total count
ReactionSummary(table, message_id) ==
    [reactions |-> GetMessageReactions(table, message_id),
     total_count |-> Len(ReactionsOf(table, message_id))]

RxReturns(t, op, message_id, user_id, emoji, res) ==
    [rx_tasks EXCEPT ![t] = [IdleRx EXCEPT !.op = op, !.pc = "done", !.res = res]]

\* add_reaction, the test that the message exists
AddCheckMessage(t, message_id, user_id, emoji, db_ok) ==
    /\ rx_tasks[t].pc = "idle"
    /\ rx_tasks' =
         IF ~db_ok THEN RxReturns(t, "add_reaction", message_id, user_id, emoji, "database")
         ELSE IF ~ReactionMessageExists(message_id)
         THEN RxReturns(t, "add_reaction", message_id, user_id, emoji, "not_found")
         ELSE [rx_tasks EXCEPT ![t] =
                 [IdleRx EXCEPT !.op = "add_reaction", !.pc = "A_exists",
                                !.message_id = message_id, !.user_id = user_id,
                                !.emoji = emoji]]
    /\ UNCHANGED <<message_reactions, rlVars, hubVars, storeVars, lockVars, sessVars, extVars>>

\* add_reaction, the test that the reaction does not exist yet
AddCheckReaction(t, db_ok) ==
    /\ rx_tasks[t].pc = "A_exists"
    /\ LET c == rx_tasks[t]
       IN  rx_tasks' =
             IF ~db_ok
             THEN RxReturns(t, c.op, c.message_id, c.user_id, c.emoji, "database")
             ELSE IF ReactionExists(message_reactions, c.message_id, c.user_id, c.emoji)
             THEN RxReturns(t, c.op, c.message_id, c.user_id, c.emoji, "already_exists")
             ELSE [rx_tasks EXCEPT ![t].pc = "A_insert"]
    /\ UNCHANGED <<message_reactions, rlVars, hubVars, storeVars, lockVars, sessVars, extVars>>

\* add_reaction, the INSERT: refused by the unique constraint, failed otherwise,
\* or done with created_at = Utc::now()
AddInsert(t, db_ok) ==
    /\ rx_tasks[t].pc = "A_insert"
    /\ LET c == rx_tasks[t]
       IN  IF UniqueViolation(message_reactions, c.message_id, c.user_id, c.emoji)
           THEN /\ rx_tasks' = RxReturns(t, c.op, c.message_id, c.user_id, c.emoji,
                                         "unique_violation")
                /\ UNCHANGED <<message_reactions, store_now>>
           ELSE IF ~db_ok
           THEN /\ rx_tasks' = RxReturns(t, c.op, c.message_id, c.user_id, c.emoji,
                                         "database")
                /\ UNCHANGED <<message_reactions, store_now>>
           ELSE /\ Len(store_rows) + RxMaxAdds >= store_now
                /\ message_reactions' = InsertReaction(message_reactions, c.message_id,
                                                       c.user_id, c.emoji, store_now)
                /\ store_now' = store_now + 1
                /\ rx_tasks' = RxReturns(t, c.op, c.message_id, c.user_id, c.emoji, "Ok")
    /\ UNCHANGED <<store_rows, message_mentions, msg_tasks, pinVars, rlVars, hubVars, lockVars, sessVars, extVars>>

\* remove_reaction: the DELETE and the test of rows_affected
RemoveReaction(t, message_id, user_id, emoji, db_ok) ==
    /\ rx_tasks[t].pc = "idle"
    /\ IF ~db_ok
       THEN /\ rx_tasks' = RxReturns(t, "remove_reaction", message_id, user_id, emoji,
                                     "database")
            /\ UNCHANGED message_reactions
       ELSE /\ message_reactions' =
                   DeleteReaction(message_reactions, message_id, user_id, emoji)
            /\ rx_tasks' = RxReturns(t, "remove_reaction", message_id, user_id, emoji,
                     IF Len(message_reactions') = Len(message_reactions)
                     THEN "not_found" ELSE "Ok")
    /\ UNCHANGED <<rlVars, hubVars, storeVars, lockVars, sessVars, extVars>>

\* The call has returned to its caller; the task may make another one.
RxReturn(t) ==
    /\ rx_tasks[t].pc = "done"
    /\ rx_tasks' = [rx_tasks EXCEPT ![t] = IdleRx]
    /\ UNCHANGED <<message_reactions, rlVars, hubVars, storeVars, lockVars, sessVars, extVars>>

\* Two tasks add and remove reactions of two users to message 1 and to a message
\* that does not exist, next to a moderator who deletes message 1.
RxNext ==
    \/ \E t \in RxTasks, m \in RxMessages, u \in RxUsers, e \in Emojis, ok \in BOOLEAN :
          AddCheckMessage(t, m, u, e, ok)
    \/ \E t \in RxTasks, ok \in BOOLEAN : AddCheckReaction(t, ok)
    \/ \E t \in RxTasks, ok \in BOOLEAN : AddInsert(t, ok)
    \/ \E t \in RxTasks, m \in RxMessages, u \in RxUsers, e \in Emojis, ok \in BOOLEAN :
          RemoveReaction(t, m, u, e, ok)
    \/ \E t \in RxTasks : RxReturn(t)
    \/ \E t \in MsgSenders, ok \in BOOLEAN : DeleteUpdate(t, 1, TRUE, ok)
    \/ \E t \in MsgSenders : MsgReturn(t)

RxInit ==
    /\ store_rows = <<NewRow(1, "room_message", <<"h", "i">>, 1, "general", 0, 0, 1)>>
    /\ store_now = 2
    /\ message_mentions = {}
    /\ msg_tasks = [t \in MsgTasks |-> IdleMsg]
    /\ store_pinned = {}
    /\ moderation_log = 0
    /\ pin_tasks = [t \in PinTasks |-> IdlePin]
    /\ user_blocks = {}
    /\ HubStart
    /\ RLStart
    /\ rl_action = "SendMessage"
    /\ rl_gran = BurstWindow

SpecReactions == RxInit /\ [][RxNext]_vars

\* C26: for a message with no reaction (user, emoji) yet, add_reaction followed
\* by remove_reaction of the same triple restores the reaction summary of every
\* message; and a remove_reaction of a reaction that does not exist returns
\* not-found and changes nothing.
C26_AddRemoveRestores ==
    /\ [](\A m \in RxMessages, u \in RxUsers, e \in Emojis :
            ~(\E i \in 1..Len(message_reactions) : Matches(message_reactions[i], m, u, e)) =>
                \A q \in RxMessages :
                    ReactionSummary(
                        DeleteReaction(
                            InsertReaction(message_reactions, m, u, e, store_now),
                            m, u, e), q)
                    = ReactionSummary(message_reactions, q))
    /\ [][\A t \in RxTasks, m \in RxMessages, u \in RxUsers, e \in Emojis :
            /\ RemoveReaction(t, m, u, e, TRUE)
            /\ ~(\E i \in 1..Len(message_reactions) : Matches(message_reactions[i], m, u, e))
            => /\ rx_tasks'[t].res = "not_found"
               /\ message_reactions' = message_reactions]_vars

\* A remove_reaction has returned Ok and has left the other reactions of the
\* message, one of the same user and one with the same emoji, in the table.
C26_Witness ==
    /\ \E t \in RxTasks : rx_tasks[t].op = "remove_reaction" /\ rx_tasks[t].res = "Ok"
    /\ Len(message_reactions) = 2
    /\ message_reactions[1].user_id # message_reactions[2].user_id

MgrAddInsert(t, db_ok) ==
    /\ rx_tasks[t].pc = "A_insert"
    /\ LET c == rx_tasks[t]
       IN  IF UniqueViolation(message_reactions, c.message_id, c.user_id, c.emoji)
           THEN /\ rx_tasks' = RxReturns(t, c.op, c.message_id, c.user_id, c.emoji,
                                         "unique_violation")
                /\ UNCHANGED <<message_reactions, store_now>>
           ELSE IF ~db_ok
           THEN /\ rx_tasks' = RxReturns(t, c.op, c.message_id, c.user_id, c.emoji,
                                         "database")
                /\ UNCHANGED <<message_reactions, store_now>>
           ELSE /\ Len(store_rows) + RxMaxAdds >= store_now
                /\ message_reactions' = InsertReaction(message_reactions, c.message_id,
                                                       c.user_id, c.emoji, store_now)
                /\ store_now' = store_now + 1
                /\ rx_tasks' = [rx_tasks EXCEPT ![t].pc = "B_summary"]
    /\ UNCHANGED <<store_rows, message_mentions, msg_tasks, pinVars, rlVars, hubVars, lockVars, sessVars, extVars>>

\* ReactionManager::remove_reaction: the DELETE, the test of rows_affected;
\* broadcast_reaction_update follows
MgrRemove(t, message_id, user_id, emoji, db_ok) ==
    /\ rx_tasks[t].pc = "idle"
    /\ IF ~db_ok
       THEN /\ rx_tasks' = RxReturns(t, "remove_reaction", message_id, user_id, emoji,
                                     "database")
            /\ UNCHANGED message_reactions
       ELSE /\ message_reactions' =
                   DeleteReaction(message_reactions, message_id, user_id, emoji)
            /\ rx_tasks' =
                 IF Len(message_reactions') = Len(message_reactions)
                 THEN RxReturns(t, "remove_reaction", message_id, user_id, emoji, "not_found")
                 ELSE [rx_tasks EXCEPT ![t] =
                         [IdleRx EXCEPT !.op = "remove_reaction", !.pc = "B_summary",
                                        !.message_id = message_id]]
    /\ UNCHANGED <<rlVars, hubVars, storeVars, lockVars, sessVars, extVars>>

\* broadcast_reaction_update: let reactions = self.get_message_reactions(..).await?
CastSummary(t, db_ok) ==
    /\ rx_tasks[t].pc = "B_summary"
    /\ rx_tasks' =
         IF db_ok
         THEN [rx_tasks EXCEPT ![t].pc = "B_send",
                               ![t].summary =
                                   ReactionSummary(message_reactions, rx_tasks[t].message_id)]
         ELSE RxReturns(t, rx_tasks[t].op, 0, 0, "", "database")
    /\ UNCHANGED <<message_reactions, rlVars, hubVars, storeVars, lockVars, sessVars, extVars>>

\* The reaction_update frame
ReactionUpdate(message_id, reactions) ==
    [type |-> "reaction_update", message_id |-> message_id, data |-> reactions]

\* broadcast_reaction_update: hub.clients.read().await, the send to every
\* client, Ok(())
CastSend(t) ==
    /\ rx_tasks[t].pc = "B_send"
    /\ CanReadClients
    /\ inbox' = [s \in Sessions |->
                    IF \E e \in clients : e[2].session = s /\ e[2].open
                    THEN Append(inbox[s],
                                ReactionUpdate(rx_tasks[t].message_id, rx_tasks[t].summary))
                    ELSE inbox[s]]
    /\ rx_tasks' = RxReturns(t, rx_tasks[t].op, 0, 0, "", "Ok")
    /\ UNCHANGED <<message_reactions, rlVars, clients, rooms, stats, messages, user_blocks, hub_now, next_session, next_content, tasks, storeVars, lockVars, sessVars, extVars>>

\* Two tasks add and remove the like of user 1 on message 1 while the sessions
\* of user 1 register; the summary queries are answered.
CastNext ==
    \/ \E t \in RxTasks, ok \in BOOLEAN : AddCheckMessage(t, 1, 1, "like", ok)
    \/ \E t \in RxTasks, ok \in BOOLEAN : AddCheckReaction(t, ok)
    \/ \E t \in RxTasks, ok \in BOOLEAN : MgrAddInsert(t, ok)
    \/ \E t \in RxTasks, ok \in BOOLEAN : MgrRemove(t, 1, 1, "like", ok)
    \/ \E t \in RxTasks : CastSummary(t, TRUE)
    \/ \E t \in RxTasks : CastSend(t)
    \/ \E t \in RxTasks : RxReturn(t)
    \/ \E t \in Workers : Register(t, 1)
    \/ \E t \in Workers : Return(t)

SpecReactionCast == RxInit /\ [][CastNext]_vars

\* C36: when no reaction call is running, the last reaction_update frame a
\* registered session has received for the message carries the summary of the
\* reactions the table holds.
C36_LastUpdateIsFinal ==
    (\A t \in RxTasks : rx_tasks[t].pc \in {"idle", "done"})
    => \A e \in clients :
          LET box == inbox[e[2].session]
          IN  box # <<>> =>
                box[Len(box)].data = ReactionSummary(message_reactions, 1)

(***************************************************************************)
(* handle_direct_message and send_dm with the hub's RateLimiter: the calls *)
(* of one window of the limiter.                                           *)
(***************************************************************************)
\* ServerConfig.limits.max_messages_per_minute, the quota the hub's limiter is
\* built with.
max_messages_per_minute == 4

\* Bound: the direct messages requested in a behaviour.
DmMaxRequests == 4

\* RateLimiter::check_and_update(user_id): whether the call is allowed, the
\* user having fewer than the quota of recorded calls in the window.
CheckAndUpdate(buckets, user_id) == buckets[user_id] < max_messages_per_minute

\* RateLimiter::check_and_update(user_id): an allowed call is recorded.
Recorded(buckets, user_id) ==
    IF CheckAndUpdate(buckets, user_id)
    THEN [buckets EXCEPT ![user_id] = @ + 1]
    ELSE buckets

\* handle_direct_message up to the call of send_dm: the permission check, the
\* sanitizing, hub.check_rate_limit, the block check.
DmHandlerChecks(t, from_user, to_user, verdict) ==
    /\ tasks[t].pc = "idle"
    /\ next_content <= DmMaxRequests
    /\ next_content' = next_content + 1
    /\ IF verdict # "Ok"
       THEN /\ tasks' = Failed(t, "direct_message", verdict)
            /\ UNCHANGED hub_buckets
       ELSE /\ hub_buckets' = Recorded(hub_buckets, from_user)
            /\ tasks' =
                 IF ~CheckAndUpdate(hub_buckets, from_user)
                 THEN Failed(t, "direct_message", "rate_limit")
                 ELSE IF IsUserBlocked(from_user, to_user)
                 THEN [tasks EXCEPT ![t] =
                         [IdleTask EXCEPT !.op = "direct_message", !.pc = "done",
                                          !.user = from_user, !.to = to_user,
                                          !.content = next_content, !.res = "Ok"]]
                 ELSE [tasks EXCEPT ![t] =
                         [IdleTask EXCEPT !.op = "direct_message", !.pc = "D_send",
                                          !.user = from_user, !.to = to_user,
                                          !.content = next_content]]
    /\ UNCHANGED <<clients, rooms, stats, messages, user_blocks, inbox, hub_now, next_session, rlVars, storeVars, lockVars, rxVars, sessVars, db_rooms, ip_actions, blacklisted_ips>>

\* send_dm up to its INSERT: the validation, the DM to oneself,
\* hub.check_rate_limit.
DmSendChecks(t, valid) ==
    /\ tasks[t].pc = "D_send"
    /\ IF ~valid
       THEN /\ tasks' = [tasks EXCEPT ![t].pc = "done", ![t].res = "Err",
                                      ![t].err = "validation"]
            /\ UNCHANGED hub_buckets
       ELSE IF tasks[t].user = tasks[t].to
       THEN /\ tasks' = [tasks EXCEPT ![t].pc = "done", ![t].res = "Err",
                                      ![t].err = "self_dm"]
            /\ UNCHANGED hub_buckets
       ELSE /\ hub_buckets' = Recorded(hub_buckets, tasks[t].user)
            /\ tasks' = IF CheckAndUpdate(hub_buckets, tasks[t].user)
                        THEN [tasks EXCEPT ![t].pc = "D_insert"]
                        ELSE [tasks EXCEPT ![t].pc = "done", ![t].res = "Err",
                                           ![t].err = "rate_limit"]
    /\ UNCHANGED <<clients, rooms, stats, messages, user_blocks, inbox, hub_now, next_session, next_content, rlVars, storeVars, lockVars, rxVars, sessVars, db_rooms, ip_actions, blacklisted_ips>>

DmQuotaNext ==
    \/ \E t \in Sender, u \in Users, w \in Users, v \in {"Ok", "permission", "validation"} :
          DmHandlerChecks(t, u, w, v)
    \/ \E t \in Sender, valid \in BOOLEAN : DmSendChecks(t, valid)
    \/ \E t \in Sender, ok \in BOOLEAN : DmInsert(t, ok)
    \/ \E t \in Sender : DmCount(t)
    \/ \E t \in Sender : DmDeliver(t)
    \/ \E t \in Workers, u \in Users : Register(t, u)
    \/ \E t \in Sender : Return(t)

SpecDmQuota == HubInit /\ [][DmQuotaNext]_vars

\* The calls the limiter has recorded, over all users.
UnitsConsumed == hub_buckets[1] + hub_buckets[2]

\* C31: a direct message that passes the checks consumes one unit of its
\* sender's quota, taken by the handler's check, and send_dm takes no further
\* one; no request consumes more than one unit, so a request is refused for
\* the rate limit only after max_messages_per_minute requests were made.
C31_OneUnitPerDm ==
    /\ [](UnitsConsumed <= next_content - 1)
    /\ [][\A t \in Tasks :
            /\ (tasks[t].pc = "idle" /\ tasks'[t].pc = "D_send")
               => hub_buckets'[tasks'[t].user] = hub_buckets[tasks'[t].user] + 1
            /\ (tasks[t].pc = "D_send" /\ tasks'[t].pc = "D_insert")
               => hub_buckets' = hub_buckets
            /\ (tasks[t].pc # "done" /\ tasks'[t].pc = "done" /\ tasks'[t].err = "rate_limit")
               => next_content - 1 >= max_messages_per_minute]_vars

(***************************************************************************)
(* handle_join_room: the join requests of one connection, beside the       *)
(* registers and unregisters of another task.                              *)
(***************************************************************************)
\* The rooms tables a behaviour starts with.
RoomTables == {{}, {"random"}}

\* room_exists: SELECT EXISTS(SELECT 1 FROM rooms WHERE name = $1)
room_exists(room) == room \in db_rooms

\* handle_join_room up to the call of join_room: the JoinRoom permission, the
\* room name, room_exists, and for a room that does not exist the CreateRoom
\* permission (nothing is written for the new room).
JoinChecks(t, user_id, room, can_join, valid, db_ok, can_create) ==
    /\ tasks[t].pc = "idle"
    /\ tasks' =
         IF ~can_join THEN Failed(t, "join_room", "permission")
         ELSE IF ~valid THEN Failed(t, "join_room", "validation")
         ELSE IF ~db_ok THEN Failed(t, "join_room", "database")
         ELSE IF ~room_exists(room) /\ ~can_create THEN Failed(t, "join_room", "no_room")
         ELSE [tasks EXCEPT ![t] =
                 [IdleTask EXCEPT !.op = "join_room", !.pc = "J_join",
                                  !.user = user_id, !.room = room]]
    /\ UNCHANGED <<clients, rooms, stats, messages, user_blocks, inbox, hub_now, next_session, next_content, rlVars, storeVars, lockVars, rxVars, sessVars, extVars>>

\* handle_join_room: hub::room::join_room(hub, room, user_id)
JoinMember(t) ==
    /\ tasks[t].pc = "J_join"
    /\ rooms' = [rooms EXCEPT ![tasks[t].room] = PushMember(@, tasks[t].user)]
    /\ tasks' = [tasks EXCEPT ![t].pc = "J_ack",
                              ![t].added = tasks[t].user \notin Members(tasks[t].room)]
    /\ UNCHANGED <<clients, stats, messages, user_blocks, inbox, hub_now, next_session, next_content, rlVars, storeVars, lockVars, rxVars, sessVars, extVars>>

\* handle_join_room: sender.send(join_ack), which fails when the receiving end
\* of the caller's channel is gone, then Ok(()).
JoinAck(t, sent) ==
    /\ tasks[t].pc = "J_ack"
    /\ tasks' = IF sent
                THEN [tasks EXCEPT ![t].pc = "done", ![t].res = "Ok"]
                ELSE [tasks EXCEPT ![t].pc = "done", ![t].res = "Err", ![t].err = "ack"]
    /\ UNCHANGED <<clients, rooms, stats, messages, user_blocks, inbox, hub_now, next_session, next_content, rlVars, storeVars, lockVars, rxVars, sessVars, extVars>>

JoinNext ==
    \/ \E t \in Sender, u \in Users, r \in Rooms, can_join \in BOOLEAN, valid \in BOOLEAN,
          db_ok \in BOOLEAN, can_create \in BOOLEAN :
          JoinChecks(t, u, r, can_join, valid, db_ok, can_create)
    \/ \E t \in Sender : JoinMember(t)
    \/ \E t \in Sender, sent \in BOOLEAN : JoinAck(t, sent)
    \/ \E t \in Workers, u \in Users : Register(t, u)
    \/ \E t \in Workers, u \in Users : UnregisterClients(t, u)
    \/ \E t \in Workers : UnregisterRooms(t)
    \/ \E t \in Tasks : Return(t)

JoinInit ==
    /\ clients = {}
    /\ rooms = [r \in Rooms |-> <<>>]
    /\ stats = [total_connections |-> 0, active_connections |-> 0, total_messages |-> 0,
                total_rooms_created |-> 0]
    /\ messages = <<>>
    /\ inbox = [s \in Sessions |-> <<>>]
    /\ hub_now = 0
    /\ next_session = 1
    /\ next_content = 1
    /\ tasks = [t \in Tasks |-> IdleTask]
    /\ lock_tasks = [t \in LockTasks |-> IdleLock]
    /\ message_reactions = <<>>
    /\ rx_tasks = [t \in RxTasks |-> IdleRx]
    /\ active_sessions = [u \in SessUsers |-> NoSession]
    /\ sess_last = [op |-> "none", user_id |-> 0, res |-> "none"]
    /\ hub_buckets = [u \in Users |-> 0]
    /\ db_rooms \in RoomTables
    /\ ip_actions = [ip \in Ips |-> <<>>]
    /\ blacklisted_ips = Blacklist
    /\ user_blocks = {}
    /\ RLStart
    /\ StoreStart
    /\ rl_action = "SendMessage"
    /\ rl_gran = BurstWindow

SpecJoin == JoinInit /\ [][JoinNext]_vars

\* C32: once a room has members, a join request of a user with the JoinRoom
\* permission, a valid name and an answered query is not refused for want of
\* the room, whether or not the user may create rooms, and the user is added;
\* a user without CreateRoom asking for a room that is in no registry is refused
\* and the room registry is unchanged.
C32_JoinCreatedRoom ==
    [][\A t \in Sender, u \in Users, r \in Rooms, can_create \in BOOLEAN :
          JoinChecks(t, u, r, TRUE, TRUE, TRUE, can_create)
          => /\ Members(r) # {} => tasks'[t].pc = "J_join"
             /\ (Members(r) = {} /\ r \notin db_rooms /\ ~can_create)
                => tasks'[t].err = "no_room" /\ rooms' = rooms]_vars

\* C37: a handle_join_room call that returns an error has not added its caller
\* to the member list of the room.
C37_FailedJoinLeavesRooms ==
    \A t \in Tasks :
        tasks[t].op = "join_room" /\ tasks[t].pc = "done" /\ tasks[t].res = "Err"
        => ~tasks[t].added

(***************************************************************************)
(* mark_dm_as_read by either task, beside the sends, edits and deletes of  *)
(* direct messages by the first.                                           *)
(***************************************************************************)
\* SELECT EXISTS(SELECT 1 FROM messages WHERE id = $1 AND recipient_id = $2)
IsRecipient(message_id, user_id) ==
    \E i \in 1..Len(store_rows) :
        store_rows[i].id = message_id /\ store_rows[i].recipient_id = user_id

\* UPDATE messages SET status = 'read', updated_at = $1 WHERE id = $2
SetRead(rows, message_id) ==
    [i \in 1..Len(rows) |->
        IF rows[i].id = message_id THEN [rows[i] EXCEPT !.status = "read"]
        ELSE rows[i]]

\* mark_dm_as_read, from the call to the test of the recipient
MarkReadCheck(t, message_id, user_id, db_ok) ==
    /\ msg_tasks[t].pc = "idle"
    /\ msg_tasks' =
         IF ~db_ok THEN MsgReturns(t, "mark_dm_as_read", "database")
         ELSE IF ~IsRecipient(message_id, user_id)
         THEN MsgReturns(t, "mark_dm_as_read", "permission")
         ELSE [msg_tasks EXCEPT ![t] =
                 [IdleMsg EXCEPT !.op = "mark_dm_as_read", !.pc = "R_update",
                                 !.message_id = message_id, !.user_id = user_id]]
    /\ UNCHANGED <<store_rows, store_now, message_mentions, pinVars, rlVars, hubVars, lockVars, rxVars, sessVars, extVars>>

\* mark_dm_as_read: the UPDATE, then Ok(())
MarkReadUpdate(t, db_ok) ==
    /\ msg_tasks[t].pc = "R_update"
    /\ IF db_ok
       THEN /\ store_rows' = SetRead(store_rows, msg_tasks[t].message_id)
            /\ msg_tasks' = MsgReturns(t, "mark_dm_as_read", "Ok")
       ELSE /\ msg_tasks' = MsgReturns(t, "mark_dm_as_read", "database")
            /\ UNCHANGED store_rows
    /\ UNCHANGED <<store_now, message_mentions, pinVars, rlVars, hubVars, lockVars, rxVars, sessVars, extVars>>

MarkReadNext ==
    \/ \E t \in MsgSenders, pair \in MsgPairs, ok \in BOOLEAN :
          SendDmCheck(t, pair[1], pair[2], <<"h", "i">>, 0, ok)
    \/ \E t \in MsgSenders, ok \in BOOLEAN : SendDmInsert(t, ok)
    \/ \E t \in MsgSenders, m \in RowIds, u \in MsgEditors, c \in Contents, ok \in BOOLEAN :
          EditSelect(t, m, u, c, ok)
    \/ \E t \in MsgSenders, ok \in BOOLEAN : EditUpdate(t, ok)
    \/ \E t \in MsgSenders, m \in RowIds, u \in MsgEditors, ok \in BOOLEAN :
          DeleteCheck(t, m, u, ok)
    \/ \E t \in MsgSenders, m \in RowIds, mod \in BOOLEAN, ok \in BOOLEAN :
          DeleteUpdate(t, m, mod, ok)
    \/ \E t \in MsgTasks, m \in RowIds, u \in MsgEditors, ok \in BOOLEAN :
          MarkReadCheck(t, m, u, ok)
    \/ \E t \in MsgTasks, ok \in BOOLEAN : MarkReadUpdate(t, ok)
    \/ \E t \in MsgTasks : MsgReturn(t)

MarkReadInit ==
    /\ store_rows = <<>>
    /\ store_now = 1
    /\ message_mentions = {}
    /\ msg_tasks = [t \in MsgTasks |-> IdleMsg]
    /\ store_pinned = {}
    /\ moderation_log = 0
    /\ pin_tasks = [t \in PinTasks |-> IdlePin]
    /\ user_blocks = {}
    /\ HubStart
    /\ RLStart
    /\ rl_action = "SendMessage"
    /\ rl_gran = BurstWindow

SpecMarkRead == MarkReadInit /\ [][MarkReadNext]_vars

\* C33: a message whose status is deleted keeps that status under every later
\* store operation, and stays out of get_dm_history.
C33_DeletedStaysDeleted ==
    [][\A i \in 1..Len(store_rows) :
          store_rows[i].status = "deleted"
          => /\ store_rows'[i].status = "deleted"
             /\ \A u \in MsgUsers, w \in MsgUsers :
                   \A k \in 1..Len(GetDmHistory(u, w, MsgMaxRows, None).messages') :
                       GetDmHistory(u, w, MsgMaxRows, None).messages'[k].id
                           # store_rows[i].id]_vars

(***************************************************************************)
(* Connections: a connection registers a session for its user when it is   *)
(* accepted and calls unregister for that user when it ends.               *)
(***************************************************************************)
\* The connection is accepted: ChatHub::register(user_id, client); the task
\* keeps the user and the session of its connection.
Connect(t, user_id) ==
    /\ tasks[t].pc = "idle"
    /\ next_session <= MaxSessions
    /\ CanWriteClients
    /\ clients' = HashMapInsert(clients, user_id, NewClient(next_session))
    /\ stats' = [stats EXCEPT !.total_connections = @ + 1,
                              !.active_connections = Cardinality(clients')]
    /\ next_session' = next_session + 1
    /\ tasks' = [tasks EXCEPT ![t] =
                    [IdleTask EXCEPT !.op = "connection", !.pc = "connected",
                                     !.user = user_id, !.session = next_session]]
    /\ UNCHANGED <<rooms, messages, user_blocks, inbox, hub_now, next_content, rlVars, storeVars, lockVars, rxVars, sessVars, extVars>>

\* The connection joins a room for its user.
ConnectionJoins(t, room) ==
    /\ tasks[t].pc = "connected"
    /\ rooms' = [rooms EXCEPT ![room] = PushMember(@, tasks[t].user)]
    /\ UNCHANGED <<clients, stats, tasks, messages, user_blocks, inbox, hub_now, next_session, next_content, rlVars, storeVars, lockVars, rxVars, sessVars, extVars>>

\* The connection ends: ChatHub::unregister(user_id), up to the await of
\* rooms.write(); UnregisterRooms is the rest of it.
Disconnect(t) ==
    /\ tasks[t].pc = "connected"
    /\ CanWriteClients
    /\ RemoveClient(tasks[t].user)
    /\ tasks' = [tasks EXCEPT ![t].pc = "U_rooms"]
    /\ UNCHANGED <<rooms, messages, user_blocks, inbox, hub_now,
                   next_session, next_content, rlVars, storeVars, lockVars, rxVars, sessVars, extVars>>

ReconnectNext ==
    \/ \E t \in Tasks, u \in Users : Connect(t, u)
    \/ \E t \in Tasks, r \in Rooms : ConnectionJoins(t, r)
    \/ \E t \in Tasks : Disconnect(t)
    \/ \E t \in Tasks : UnregisterRooms(t)

SpecReconnect == RegistryInit /\ [][ReconnectNext]_vars

\* The session of the task's connection has been replaced by a later connect of
\* the same user.
Replaced(t) ==
    /\ tasks[t].op = "connection"
    /\ Registered(tasks[t].user)
    /\ Get(clients, tasks[t].user).session # tasks[t].session

\* C34: the unregister a connection issues when it ends, its session having
\* been replaced by a later connect of its user, leaves the registry and the
\* member lists of the rooms as they are.
C34_StaleDisconnectKeepsSession ==
    [][\A t \in Tasks :
          Replaced(t) /\ tasks'[t] # tasks[t]
          => clients' = clients /\ rooms' = rooms]_vars

(***************************************************************************)
(* EnhancedSecurity::validate_request (security.rs): the rate limiter, the *)
(* session manager and the IP monitor behind one call. The call holds      *)
(* &mut self, so it is one step.                                           *)
(***************************************************************************)
ReqUsers == {1, 2}

\* The action every request here is made for.
ReqAction == "SendDM"

ReqKeys == ReqUsers \X {ReqAction}

\* Bound: how many times the clock moves on, by BurstWindow seconds each time.
ReqMaxAdvances == 1

\* Bound: the requests the IP monitor records for one address.
ReqMaxIpActions == 2

\* check_limit on the bucket of the key at rl_now: the verdict and the bucket the
\* call leaves behind.
LimitOutcome(key, action) ==
    LET limit == limits(action)
        actions == Retain(user_actions[key], rl_now, limit.window_duration)
    IN  IF MainLimitHit(actions, limit) \/ BurstLimitHit(actions, rl_now, limit)
        THEN [res |-> "Err", actions |-> actions]
        ELSE [res |-> "Ok", actions |-> Append(actions, rl_now)]

\* validate_session: the verdict and the entry of the user it leaves behind.
SessionOutcome(user_id, token, expired) ==
    IF active_sessions[user_id] = NoSession
    THEN [res |-> "unauthorized", session |-> NoSession]
    ELSE IF active_sessions[user_id] # hash_token(token)
    THEN [res |-> "unauthorized", session |-> active_sessions[user_id]]
    ELSE IF expired
    THEN [res |-> "unauthorized", session |-> NoSession]
    ELSE [res |-> "Ok", session |-> active_sessions[user_id]]

\* IpMonitor::check_ip(ip, action): a blacklisted address is refused; any other
\* has its entries of the last minute kept and the action recorded.
CheckIp(ip, action) ==
    IF ip \in blacklisted_ips
    THEN [res |-> "unauthorized", actions |-> ip_actions[ip]]
    ELSE [res |-> "Ok",
          actions |-> Append(SelectSeq(ip_actions[ip],
                                       LAMBDA e : DurationSince(rl_now, e[1]) <= 60),
                             <<rl_now, action>>)]

\* validate_request(user_id, ip, session_token, action, None): each check runs
\* only when those before it returned Ok, and the `?` returns the first error.
\* sess_last names the check that refused the request.
ValidateRequest(user_id, ip, token, expired) ==
    LET key == <<user_id, ReqAction>>
        rate == LimitOutcome(key, ReqAction)
        session == SessionOutcome(user_id, token, expired)
        monitor == CheckIp(ip, ReqAction)
    IN  /\ Len(ip_actions[ip]) < ReqMaxIpActions
        /\ user_actions' = [user_actions EXCEPT ![key] = rate.actions]
        /\ rl_last' = rate.res
        /\ rl_ok' = IF rate.res = "Ok" THEN [rl_ok EXCEPT ![key] = Append(@, rl_now)]
                    ELSE rl_ok
        /\ IF rate.res # "Ok"
           THEN /\ sess_last' = [op |-> "validate_request", user_id |-> user_id,
                                 res |-> "rate_limit"]
                /\ UNCHANGED <<active_sessions, ip_actions>>
           ELSE IF session.res # "Ok"
           THEN /\ active_sessions' = [active_sessions EXCEPT ![user_id] = session.session]
                /\ sess_last' = [op |-> "validate_request", user_id |-> user_id,
                                 res |-> "session"]
                /\ UNCHANGED ip_actions
           ELSE IF monitor.res # "Ok"
           THEN /\ sess_last' = [op |-> "validate_request", user_id |-> user_id,
                                 res |-> "ip"]
                /\ UNCHANGED <<active_sessions, ip_actions>>
           ELSE /\ ip_actions' = [ip_actions EXCEPT ![ip] = monitor.actions]
                /\ sess_last' = [op |-> "validate_request", user_id |-> user_id,
                                 res |-> "Ok"]
                /\ UNCHANGED active_sessions
        /\ UNCHANGED <<rl_now, rl_action, rl_gran, hubVars, storeVars, lockVars, rxVars,
                       hub_buckets, db_rooms, blacklisted_ips>>

\* The clock moves on between two requests.
ReqAdvance ==
    /\ rl_now + BurstWindow <= ReqMaxAdvances * BurstWindow
    /\ rl_now' = rl_now + BurstWindow
    /\ rl_last' = "none"
    /\ UNCHANGED <<user_actions, rl_ok, rl_action, rl_gran, hubVars, storeVars, lockVars, rxVars, sessVars, extVars>>

\* The requests of the users: tokens are issued by create_session and presented,
\* right or wrong, from any address.
RequestNext ==
    \/ \E u \in ReqUsers, token \in Tokens : CreateSession(u, token)
    \/ \E u \in ReqUsers, ip \in Ips, token \in Tokens, expired \in BOOLEAN :
          ValidateRequest(u, ip, token, expired)
    \/ ReqAdvance

RequestInit ==
    /\ rl_now = 0
    /\ user_actions = [k \in ReqKeys |-> <<>>]
    /\ rl_ok = [k \in ReqKeys |-> <<>>]
    /\ rl_last = "none"
    /\ rl_action = ReqAction
    /\ rl_gran = BurstWindow
    /\ HubStart
    /\ StoreStart
    /\ user_blocks = {}

SpecRequest == RequestInit /\ [][RequestNext]_vars

\* C39: a validate_request that is refused for its session token (missing, wrong
\* or expired) or for a blacklisted IP leaves the rate-limit bucket of the user it
\* names as it was before the call.
C39_RejectedLeavesBucket ==
    [][\A u \in ReqUsers, ip \in Ips, token \in Tokens, expired \in BOOLEAN :
          ValidateRequest(u, ip, token, expired) /\ sess_last'.res \in {"session", "ip"}
          => user_actions'[<<u, ReqAction>>] = user_actions[<<u, ReqAction>>]]_vars
StoreNext ==
    \/ \E t \in PinTasks, p \in BOOLEAN, r \in StoreRooms, ok \in BOOLEAN :
          \E m \in PinTargets(p) : PinCheckExists(t, m, r, p, ok)
    \/ \E t \in PinTasks, ok \in BOOLEAN : PinCheckCount(t, ok)
    \/ \E t \in PinTasks, ok \in BOOLEAN : PinUpdate(t, ok)
    \/ \E t \in PinTasks, ok \in BOOLEAN : PinLog(t, ok)
    \/ \E t \in PinTasks : PinReturn(t)

\* The store before the first pin_room_message call: the messages of StoreTable,
\* none of them pinned.
StoreInit ==
    /\ store_pinned = {}
    /\ moderation_log = 0
    /\ pin_tasks = [t \in PinTasks |-> IdlePin]
    /\ store_rows = StoreTable
    /\ store_now = StoreMaxMessages + 1
    /\ message_mentions = {}
    /\ msg_tasks = [t \in MsgTasks |-> IdleMsg]
    /\ HubStart
    /\ user_blocks = {}
    /\ RLStart
    /\ rl_action = "SendMessage"
    /\ rl_gran = BurstWindow

SpecStore == StoreInit /\ [][StoreNext]_vars

\* C10: the number of pinned messages of a room is at most 10 in every reachable
\* state, whatever the interleaving of the pin_room_message calls.
C10_PinnedAtMostTen ==
    \A r \in StoreRooms : PinnedCount(r) <= MaxPinned


\* C11: a pin_room_message(pinned = true) whose COUNT query finds 10 pinned
\* messages in the room returns an error (the limit error when the query
\* succeeds), leaves the pinned set and the moderation log as they were, and
\* get_pinned_messages returns the same ten messages after it as before it. Only
\* a call naming a message of the given room goes past the EXISTS query: any
\* other returns an error and changes neither the messages, nor the pinned set,
\* nor the moderation log.
C11_PinRefused ==
    [][\A t \in PinTasks :
         LET unchanged ==
                 /\ store_pinned' = store_pinned
                 /\ moderation_log' = moderation_log
                 /\ store_rows' = store_rows
             counts == /\ pin_tasks[t].pc = "P_count"
                       /\ pin_tasks'[t].pc # "P_count"
                       /\ PinnedCount(pin_tasks[t].room_id) >= MaxPinned
             starts == /\ pin_tasks[t].pc = "idle"
                       /\ pin_tasks'[t].pc # "idle"
         IN  /\ counts =>
                   /\ pin_tasks'[t].pc = "done"
                   /\ pin_tasks'[t].res \in {"limit", "database"}
                   /\ unchanged
                   /\ \A r \in {pin_tasks[t].room_id} :
                         GetPinnedMessages(r)' = GetPinnedMessages(r)
             /\ starts =>
                   /\ pin_tasks'[t].pc # "done" =>
                         MessageExists(pin_tasks'[t].message_id, pin_tasks'[t].room_id)
                   /\ pin_tasks'[t].pc = "done" =>
                         (pin_tasks'[t].res \in {"not_found", "database"} /\ unchanged)
      ]_vars

\* A pin of an eleventh message has been refused for the limit, and the room's
\* ten pinned messages are what get_pinned_messages returns.
C11_Witness ==
    \E t \in PinTasks :
        /\ pin_tasks[t].pc = "done"
        /\ pin_tasks[t].res = "limit"
        /\ \A u \in PinTasks \ {t} : pin_tasks[u].pc = "idle"
        /\ Len(GetPinnedMessages("general")) = MaxPinned
        /\ \A i \in 1..MaxPinned : GetPinnedMessages("general")[i].id = MaxPinned + 1 - i

\* C12: the writes of a store operation commit together or not at all. For
\* pin_room_message: when the call returns an error after its UPDATE (its INSERT
\* INTO moderation_log failed), the UPDATE is not visible: the message the call
\* named, which was not pinned when a pin was asked and pinned when an unpin was
\* asked, is as it was.
C12_WritesAtomic ==
    [][\A t \in PinTasks :
         (/\ pin_tasks[t].pc = "P_log"
          /\ pin_tasks'[t].pc = "done"
          /\ pin_tasks'[t].res # "Ok")
         => ((pin_tasks[t].message_id \in store_pinned') = (~pin_tasks[t].is_pinned))
      ]_vars

(***************************************************************************)
(* The message store under a sequence of calls, with one pin_room_message  *)
(* call beside them: the moderation log has room for one more row.         *)
(***************************************************************************)
\* A reply names the oldest message as its parent.
Parents == {0} \cup {id \in RowIds : id = 1}

\* A reply mentions user 2; a message that is not a reply mentions nobody.
MentionsOf(parent_message_id) == IF parent_message_id = 0 THEN <<>> ELSE <<2>>

MsgNext ==
    \/ \E t \in MsgSenders, r \in StoreRooms, a \in MsgAuthors, p \in Parents,
          ok \in BOOLEAN :
          SendRoomInsert(t, r, a, <<"h", "i">>, p, MentionsOf(p), ok)
    \/ \E t \in MsgSenders, ok \in BOOLEAN : SendMention(t, ok)
    \/ \E t \in MsgSenders, ok \in BOOLEAN : SendThread(t, ok)
    \/ \E t \in MsgSenders, pair \in MsgPairs, ok \in BOOLEAN :
          SendDmCheck(t, pair[1], pair[2], <<"h", "i">>, 0, ok)
    \/ \E t \in MsgSenders, ok \in BOOLEAN : SendDmInsert(t, ok)
    \/ \E t \in MsgSenders, m \in Parents, u \in MsgEditors, c \in Contents, ok \in BOOLEAN :
          EditSelect(t, m, u, c, ok)
    \/ \E t \in MsgSenders, ok \in BOOLEAN : EditUpdate(t, ok)
    \/ \E t \in MsgSenders, m \in RowIds, u \in MsgEditors, ok \in BOOLEAN :
          DeleteCheck(t, m, u, ok)
    \/ \E t \in MsgSenders, m \in RowIds, mod \in BOOLEAN, ok \in BOOLEAN :
          DeleteUpdate(t, m, mod, ok)
    \/ \E t \in MsgSenders : MsgReturn(t)
    \/ \E p \in BOOLEAN, r \in StoreRooms :
          \E m \in PinTargets(p) : PinCheckExists(1, m, r, p, TRUE)
    \/ PinCheckCount(1, TRUE)
    \/ PinUpdate(1, TRUE)
    \/ PinLog(1, TRUE)
    \/ PinReturn(1)

MsgInit ==
    /\ store_rows = <<>>
    /\ store_now = 1
    /\ message_mentions = {}
    /\ msg_tasks = [t \in MsgTasks |-> IdleMsg]
    /\ store_pinned = {}
    /\ moderation_log = MaxModerationLog - 1
    /\ pin_tasks = [t \in PinTasks |-> IdlePin]
    /\ user_blocks = {<<2, 1>>}
    /\ HubStart
    /\ RLStart
    /\ rl_action = "SendMessage"
    /\ rl_gran = BurstWindow

SpecMsg == MsgInit /\ [][MsgNext]_vars

\* The arguments the reads are given.
Queries == {<<>>, <<"H">>, <<"y", "o">>}

RoomOptions == {None} \cup {Some(r) : r \in StoreRooms}

\* The messages the four reads return, over their arguments, when asked for
\* as many messages as the table has rows or for one.
Returned ==
    LET sizes == {1, Len(store_rows)}
    IN  UNION (
          {Range(GetRoomHistory(r, l, None, th).messages) :
              r \in StoreRooms, l \in sizes, th \in BOOLEAN}
          \cup {Range(GetDmHistory(pair[1], pair[2], l, None).messages) :
              pair \in {<<1, 2>>, <<1, 3>>}, l \in sizes}
          \cup {Range(GetPinnedMessages(r)) : r \in StoreRooms}
          \cup {Range(SearchMessages(q, u, ro, l).messages) :
              q \in Queries, u \in MsgEditors, ro \in RoomOptions, l \in sizes})

\* C13: get_room_history, get_dm_history, get_pinned_messages and
\* search_messages return no message whose status is deleted, in any state
\* reached by sends, edits, deletes and pins.
C13_ReadsSkipDeleted ==
    \A m \in Returned : m.status # "deleted"

\* A pinned room message has been deleted, and the reads return the other
\* message of the table only.
C13_Witness ==
    /\ \E i \in 1..Len(store_rows) :
          /\ store_rows[i].status = "deleted"
          /\ store_rows[i].id \in store_pinned
    /\ Cardinality(Returned) = 1

Limits == {-1, 0, 1, 2, 500, 501}

BeforeIds == {None} \cup {Some(id) : id \in 1..(MsgMaxRows + 1)}

\* What get_room_history answers within the accepted limits: room messages of
\* the room only, the newest first, with ids below before_id when it is given,
\* without replies when include_threads is false, and at most limit of them.
RoomHistoryFilters(q, room_id, limit, before_id, include_threads) ==
    /\ q.res = "Ok"
    /\ Len(q.messages) <= limit
    /\ \A i \in 1..Len(q.messages) :
          /\ q.messages[i].message_type = "room_message"
          /\ q.messages[i].room_id = room_id
          /\ before_id # None => q.messages[i].id < before_id[1]
          /\ ~include_threads => q.messages[i].parent_message_id = 0
    /\ \A i, j \in 1..Len(q.messages) :
          i < j => q.messages[i].created_at >= q.messages[j].created_at

\* C15: get_room_history(room, limit, before_id, include_threads) accepts only
\* the limits 1..500, answering invalid input for a limit <= 0 or > 500, and
\* within them returns only room messages of that room, in created_at
\* descending order, with ids below before_id when it is given and without
\* replies when include_threads is false.
C15_RoomHistoryContract ==
    \A r \in StoreRooms, l \in Limits, b \in BeforeIds, th \in BOOLEAN :
        LET q == GetRoomHistory(r, l, b, th)
        IN  IF l >= 1 /\ l <= 500
            THEN RoomHistoryFilters(q, r, l, b, th)
            ELSE q.res = "invalid_input"

\* C16: an edit_message(m, a, c) by the author a of m that returns Ok leaves m,
\* as a read returns it, with content c, is_edited true and original_content the
\* content m had before the edit (before its first edit, when m had been
\* edited already).
C16_EditThenRead ==
    [][\A t \in MsgTasks :
         (/\ msg_tasks[t].pc = "E_update"
          /\ msg_tasks'[t].res = "Ok")
         => \A m \in {msg_tasks[t].message_id}, c \in {msg_tasks[t].content} :
               LET before == RowById(m)
                   read == RowToMessage(RowById(m)')
               IN  /\ read.content = c
                   /\ read.is_edited
                   /\ read.original_content =
                         IF before.original_content # None
                         THEN before.original_content
                         ELSE Some(before.content)
      ]_vars

\* C30: a send_direct_message whose block query is answered is refused with
\* PermissionDenied exactly when user_blocks has the row (blocker = recipient,
\* blocked = author); a row in the opposite direction does not refuse it; the
\* refused call inserts no row and changes no thread count, and a call that is
\* not refused goes on to its INSERT.
C30_BlockedByRecipient ==
    [][\A t \in MsgSenders, pair \in MsgPairs :
          SendDmCheck(t, pair[1], pair[2], <<"h", "i">>, 0, TRUE)
          => LET author == pair[1]
                 recipient == pair[2]
                 refused == msg_tasks'[t].pc = "done" /\ msg_tasks'[t].res = "permission"
             IN  /\ refused <=> <<recipient, author>> \in user_blocks
                 /\ refused => store_rows' = store_rows
                 /\ ~refused => /\ msg_tasks'[t].pc = "M_insert"
                                /\ msg_tasks'[t].user_id = author
                                /\ msg_tasks'[t].message_id = recipient]_vars

\* User 2 has blocked user 1 and the table is empty: the send of user 1 to user 2
\* has been refused, no row inserted.
C30_Witness ==
    /\ user_blocks = {<<2, 1>>}
    /\ store_rows = <<>>
    /\ \E t \in MsgSenders : msg_tasks[t].pc = "done" /\ msg_tasks[t].res = "permission"


(***************************************************************************)
(* edit_message calls of two tasks on a table of two messages, next to a   *)
(* moderator who deletes                                                   *)
(***************************************************************************)
\* The content a message was sent with: message 1 by user 1, message 2 by user 2.
SentContent(id) == IF id = 1 THEN <<"h", "i">> ELSE <<"Y", "o">>

EditTable ==
    [i \in {1, 2} |-> NewRow(i, "room_message", SentContent(i), i, "general", 0, 0, i)]

EditNext ==
    \/ \E t \in MsgTasks, m \in RowIds, u \in MsgEditors, c \in Contents, ok \in BOOLEAN :
          EditSelect(t, m, u, c, ok)
    \/ \E t \in MsgTasks, ok \in BOOLEAN : EditUpdate(t, ok)
    \/ \E t \in MsgTasks, m \in RowIds, ok \in BOOLEAN : DeleteUpdate(t, m, TRUE, ok)
    \/ \E t \in MsgTasks : MsgReturn(t)

EditInit ==
    /\ store_rows = EditTable
    /\ store_now = Len(EditTable) + 1
    /\ message_mentions = {}
    /\ msg_tasks = [t \in MsgTasks |-> IdleMsg]
    /\ store_pinned = {}
    /\ moderation_log = 0
    /\ pin_tasks = [t \in PinTasks |-> IdlePin]
    /\ user_blocks = {}
    /\ HubStart
    /\ RLStart
    /\ rl_action = "SendMessage"
    /\ rl_gran = BurstWindow

SpecEdit == EditInit /\ [][EditNext]_vars

\* C17: once the original_content of a message is populated it is the content
\* the message was sent with, and no later edit changes it, an edit to the same
\* content included; the content, the edited flag and the original content of
\* a message change only by the UPDATE of an edit_message call made by its
\* author, so that an edit by another user changes nothing.
C17_OriginalContentKept ==
    [][\A i \in 1..Len(store_rows) :
         LET row == store_rows[i]
             new == store_rows'[i]
         IN  /\ new.original_content # None =>
                   new.original_content = Some(SentContent(new.id))
             /\ row.original_content # None =>
                   new.original_content = row.original_content
             /\ <<new.content, new.is_edited, new.original_content>>
                   # <<row.content, row.is_edited, row.original_content>>
                => \E t \in MsgTasks :
                      /\ msg_tasks[t].pc = "E_update"
                      /\ msg_tasks'[t].pc = "done"
                      /\ msg_tasks[t].message_id = row.id
                      /\ msg_tasks[t].user_id = row.author_id
      ]_vars

\* A message has been edited to another content and back: its content is the
\* one it was sent with, and so is its original content.
C17_Witness ==
    \E i \in 1..Len(store_rows) :
        /\ store_rows[i].original_content = Some(SentContent(store_rows[i].id))
        /\ store_rows[i].content = SentContent(store_rows[i].id)
        /\ \E t \in MsgTasks : msg_tasks[t].pc = "done" /\ msg_tasks[t].res = "permission"

(***************************************************************************)
(* The rate limiter with several buckets: two users, a configured action   *)
(* and an action the limits table has no entry for. User 1 calls at any    *)
(* time, user 2 before the clock first moves.                              *)
(***************************************************************************)
BucketUsers == {1, 2}

\* SecurityAction values: SendDM is in the limits table, UploadFile is not.
BucketActions == {"SendDM", "UploadFile"}

BucketKeys == BucketUsers \X BucketActions

\* How many times the clock moves on: far enough for a call to be refused while
\* timestamps of the bucket are older than the window.
BucketMaxAdvances == 7

\* At one instant the callers have at most this many calls accepted between
\* them, or one of them calls until refused.
BucketPartial == 0

BucketsNext ==
    \/ \E k \in BucketKeys :
          /\ k[1] # 1 => rl_now = 0
          /\ CheckLimitOn(k, k[2])
    \/ /\ rl_now + rl_gran <= BucketMaxAdvances * rl_gran
       /\ \/ rl_last = "Err"
          \/ \A k \in BucketKeys : CountIn(rl_ok[k], rl_now, rl_now) <= BucketPartial
       /\ rl_now' = rl_now + rl_gran
       /\ rl_last' = "none"
       /\ UNCHANGED <<user_actions, rl_ok, rl_action, rl_gran, hubVars, storeVars, lockVars, rxVars, sessVars, extVars>>

BucketsInit ==
    /\ rl_now = 0
    /\ user_actions = [k \in BucketKeys |-> <<>>]
    /\ rl_ok = [k \in BucketKeys |-> <<>>]
    /\ rl_last = "none"
    /\ rl_action = "SendDM"
    /\ rl_gran \in RLGranularities
    /\ HubStart
    /\ StoreStart
    /\ user_blocks = {}

SpecBuckets == BucketsInit /\ [][BucketsNext]_vars

\* C22 as stated: a check_limit call that fails leaves every bucket as it was, and
\* a call that succeeds appends the current timestamp to its bucket and changes
\* nothing else.
C22_FailureLeavesBuckets ==
    [][\A k \in BucketKeys :
          CheckLimitOn(k, k[2]) =>
              /\ rl_last' # "Ok" => user_actions' = user_actions
              /\ rl_last' = "Ok" =>
                     user_actions' = [user_actions EXCEPT ![k] = Append(@, rl_now)]]_vars

\* The timestamps of a bucket that are within the window of its action.
Live(k) ==
    SelectSeq(user_actions[k],
              LAMBDA time : rl_now - time <= limits(k[2]).window_duration)

\* C22, amended: a check_limit call changes no bucket but its own; refused for an
\* action that is not configured it leaves its bucket as it was; refused by the
\* main or the burst limit it only drops the timestamps older than the window
\* from its bucket; accepted it drops those and appends the current timestamp.
C22_FailureOnlyPrunes ==
    [][\A k \in BucketKeys :
          CheckLimitOn(k, k[2]) =>
              /\ \A j \in BucketKeys \ {k} : user_actions'[j] = user_actions[j]
              /\ rl_last' = "ErrConfig" => user_actions'[k] = user_actions[k]
              /\ rl_last' = "Err" => user_actions'[k] = Live(k)
              /\ rl_last' = "Ok" => user_actions'[k] = Append(Live(k), rl_now)]_vars

\* A call of user 1 has just been refused at an instant at which it had no call
\* accepted, its bucket has lost timestamps older than the window, and the
\* bucket of user 2 holds a timestamp.
C22_Witness ==
    /\ rl_last = "Err"
    /\ CountIn(rl_ok[<<1, "SendDM">>], rl_now, rl_now) = 0
    /\ Len(user_actions[<<1, "SendDM">>]) < Len(rl_ok[<<1, "SendDM">>])
    /\ user_actions[<<2, "SendDM">>] # <<>>

\* ---------------------------------------------------------------------------
\* The session manager on its own.
\* ---------------------------------------------------------------------------

SessionsInit ==
    /\ HubStart
    /\ StoreStart
    /\ RLStart
    /\ rl_action = "SendMessage"
    /\ rl_gran = BurstWindow
    /\ user_blocks = {}

SpecSessions == SessionsInit /\ [][SessionsNext]_vars

\* C29: no user holds more than max_sessions_per_user sessions, and a
\* create_session for user u is refused with ConnectionLimitReached only when u
\* itself holds that many sessions, whatever the other users hold.
C29_LimitIsPerUser ==
    /\ [](\A u \in SessUsers : SessionsHeldBy(u) <= max_sessions_per_user)
    /\ [][\A u \in SessUsers, token \in Tokens :
            CreateSession(u, token) /\ sess_last'.res = "ConnectionLimitReached"
            => SessionsHeldBy(u) >= max_sessions_per_user]_vars
RLNext ==
    \/ \E u \in RLUsers : CheckLimit(u)
    \/ RLAdvance

RLInit ==
    /\ RLStart
    /\ rl_action \in ConfiguredActions
    /\ rl_gran \in RLGranularities
    /\ HubStart
    /\ StoreStart
    /\ user_blocks = {}

SpecRL == RLInit /\ [][RLNext]_vars

\* C1: for every user and configured action, the calls that returned Ok within any
\* window of the action's length never exceed max_count, and those within any
\* 10-second window never exceed the burst limit when one is configured. (Any
\* window's accepted calls lie in the window that starts at the first of them.)
C1_RateLimitWindows ==
    \A u \in RLUsers :
        LET limit == limits(rl_action)
            h == rl_ok[u]
        IN  \A i \in 1..Len(h) :
                /\ CountIn(h, h[i], h[i] + limit.window_duration) <= limit.max_count
                /\ limit.burst_limit # NoBurst =>
                       CountIn(h, h[i], h[i] + BurstWindow) <= limit.burst_limit

\* A call refused by the main limit alone, after earlier timestamps have expired.
C1_Witness ==
    \E u \in RLUsers :
        LET limit == limits(rl_action)
        IN  /\ rl_last = "Err"
            /\ MainLimitHit(user_actions[u], limit)
            /\ ~BurstLimitHit(user_actions[u], rl_now, limit)
            /\ limit.burst_limit # NoBurst

\* C23 as stated: with the SendMessage limits, the messages a user sends within
\* 30 seconds of the first are all accepted until 20 have been, and no 21st is
\* accepted within 60 seconds of the first.
C23_TwentyInThirtySeconds ==
    rl_action = "SendMessage" =>
        \A u \in RLUsers :
            LET h == rl_ok[u]
            IN  Len(h) > 0 =>
                    /\ rl_last = "Err" /\ rl_now <= h[1] + 30 => Len(h) >= 20
                    /\ CountIn(h, h[1], h[1] + 60) <= 20

\* C23, amended: with the SendMessage limits, a message sent within 60 seconds of
\* the first is refused only when 5 messages were accepted in the 10 seconds
\* before it or 20 since the first; so 20 messages sent no more than 5 per 10
\* seconds (which takes more than 30 seconds) are all accepted, and no 21st is
\* accepted within 60 seconds of the first.
C23_TwentyUnlessBurst ==
    rl_action = "SendMessage" =>
        \A u \in RLUsers :
            LET h == rl_ok[u]
            IN  Len(h) > 0 =>
                    /\ rl_last = "Err" /\ rl_now <= h[1] + 60 =>
                           \/ CountIn(h, rl_now - 10, rl_now) >= 5
                           \/ CountIn(h, h[1], h[1] + 60) >= 20
                    /\ CountIn(h, h[1], h[1] + 60) <= 20

\* Twenty messages, five every 11 seconds, were accepted, and the 21st, sent 44
\* seconds after the first with no message in the 10 seconds before it, has
\* been refused.
C23_Witness ==
    /\ rl_action = "SendMessage"
    /\ rl_last = "Err"
    /\ \E u \in RLUsers :
        /\ Len(rl_ok[u]) = 20
        /\ rl_now <= rl_ok[u][1] + 60
        /\ CountIn(rl_ok[u], rl_now - 10, rl_now) = 0

====
